---- MODULE Spec2Model ----
(***************************************************************************)
(* Teacher-monitoring application: the persistent store (five Dexie        *)
(* tables), the backup export / import / clear-all handlers of the         *)
(* settings page, the save and delete handlers of the modules, the         *)
(* useLiveQuery hook and the list filter/sort of the report modules.       *)
(*                                                                         *)
(* Spec      the store and the handlers that write it                      *)
(* SpecLive  one consumer of useLiveQuery(() => teachers.toArray(), deps)  *)
(* SpecList  filteredAndSortedReports of a report module                   *)
(***************************************************************************)
EXTENDS Integers, Sequences, FiniteSets, TLC

VARIABLES
    db,         \* committed contents of the five tables: table name -> set of records
    now,        \* the last reading of Date.now()
    ops,        \* number of save, delete and export handlers run so far (bounded by MaxOps)
    backup,     \* the file last downloaded by handleExportData
    exportedFrom, \* history: the store contents read by that export
    last,       \* history: the handler step taken last and its inputs
    dexie,      \* whether window.Dexie is defined
    mounted,    \* whether the consumer of useLiveQuery is mounted
    deps,       \* the dependencies array of its last render
    subs,       \* the subscriptions its effect has created, oldest first
    data,       \* the hook's state: the value the consumer observes
    logs,       \* number of console.error calls of the hook
    version,    \* history: number of writes committed to the teachers table
    lastL,      \* history: the last step of the hook and the subscription it belongs to
    reports,    \* the array of reports the module's live query delivered last
    searchQuery,      \* the search box of the list view
    filterStartDate,  \* its "from" date input ('' is NoDate)
    filterEndDate,    \* its "to" date input
    sortBy,     \* its sort selector
    displayed,  \* filteredAndSortedReports as of the last render
    tz,         \* the browser's offset from UTC, in hours
    kind,       \* which report module is mounted
    view,       \* its view state: LIST, FORM or DETAIL
    selectedReportId,       \* its selection, or Null
    initialReportIdToShow,  \* the prop the shell passes, or Null
    formData,   \* the state of the mounted form, or NoReport
    errors,     \* the form's errors: the fields that carry a message
    changes,    \* number of change events of the form session (bounded by MaxChanges)
    pending,    \* the puts handleSave is awaiting
    unhandled,  \* number of promise rejections nothing caught
    lastM,      \* history: the last step of the module
    isBulkExporting,  \* the exporting flag of the list view
    timers,     \* the performExport closures scheduled by setTimeout
    running,    \* the documents of the performExport calls that await their end
    saved,      \* the documents handed to pdf.save, oldest first
    requests,   \* history: how many times the exporting flag was raised
    lastE,      \* history: the last step of the bulk export
    isPreviewOpen,  \* detail view: whether the PDF preview is open
    pdfDoc,     \* detail view: the document generatePdfDocument returned, or NoPdf
    lastP,      \* history: the last step of the detail view's export
    settingsData,   \* settings module: what its live query delivered last
    fields,     \* settings module: the four input states, by setting key
    isSaving,   \* settings module: a save is awaiting its bulkPut
    saving,     \* settings module: the records that bulkPut was given
    feedback,   \* settings module: the banner, or NoFeedback
    edits,      \* history: change events of the settings inputs
    lastS,      \* history: the last step of the settings module
    page,       \* shell: the current page
    activeTeacherId,    \* shell: the teacher of the profile page, or Null
    activeReport,       \* shell: the pending report request, or NoActiveReport
    teacherToEdit,      \* shell: the pending teacher edit request, or Null
    lastN,      \* history: the last navigation step
    teacherView,        \* teacher module: 'LIST' or 'FORM'
    selectedTeacher,    \* teacher module: the id of the teacher in the form, or Null
    teachers,   \* teacher module: the result of the live query
    teacherEffect,      \* teacher module: the effect a committed render left to run
    saves,      \* teacher module: the handleSave calls waiting at their await
    due,        \* teacher module: the live query owes a delivery
    lastT       \* history: the last step of the teacher module

storeVars == <<db, now, ops, backup, exportedFrom, last>>

liveVars == <<dexie, mounted, deps, subs, data, logs, version, lastL>>

listVars == <<reports, searchQuery, filterStartDate, filterEndDate, sortBy, displayed, tz>>

moduleVars == <<kind, view, selectedReportId, initialReportIdToShow, formData, errors,
                changes, pending, unhandled, lastM>>

exportVars == <<isBulkExporting, timers, running, saved, requests, lastE>>

previewVars == <<isPreviewOpen, pdfDoc, lastP>>

settingsVars == <<settingsData, fields, isSaving, saving, feedback, edits, lastS>>

shellVars == <<page, activeTeacherId, activeReport, teacherToEdit, lastN>>

teacherVars == <<teacherView, selectedTeacher, teachers, teacherEffect, saves, due, lastT>>

pageVars == <<previewVars, settingsVars, shellVars, teacherVars>>

uiVars == <<moduleVars, exportVars, pageVars>>

vars == <<storeVars, liveVars, listVars, uiVars>>

-----------------------------------------------------------------------------
(* Bounds *)

MaxOps == 2         \* save, delete and export handler invocations per run
MaxSubs == 2        \* subscriptions one consumer creates (mount, dependency change)
MaxErrors == 1      \* reads of the live query that throw
MaxReports == 3     \* reports in the array a report module is given
MaxDay == 3         \* the days the date inputs of the list view range over
MaxSide == 12       \* width and height of a captured canvas, in pixels
MaxSaves == 1       \* submissions of the teacher form per run
MaxChanges == 1     \* change events of one form session, besides filling in the form

-----------------------------------------------------------------------------
(* Schema: src/utils/db.ts *)

\* Object.values(dbTyped), in declaration order
TableNames == <<"teachers", "supervisionReports", "bookCheckingReports",
                "workCoverageReports", "settings">>

Tables == {TableNames[i] : i \in 1..Len(TableNames)}

ReportTables == {"supervisionReports", "bookCheckingReports", "workCoverageReports"}

\* primary key of a record: 'id' for four tables, 'key' for settings
KeyOf(t, r) == IF t = "settings" THEN r.key ELSE r.id

SETTING_KEYS == <<"reportFooter", "schoolAddress", "schoolLogo", "schoolName">>

\* every primary key of the model, in IndexedDB key order
KeyOrder == [i \in 1..MaxOps + 1 |-> ToString(i)] \o SETTING_KEYS

EmptyDb == [t \in Tables |-> {}]

-----------------------------------------------------------------------------
(* Table operations (Dexie Table API as used by the handlers) *)

Keys(t, rows) == {KeyOf(t, r) : r \in rows}

RECURSIVE SetToSeq(_)
SetToSeq(S) ==
    IF S = {} THEN <<>>
    ELSE LET x == CHOOSE x \in S : TRUE IN <<x>> \o SetToSeq(S \ {x})

RECURSIVE toArrayFrom(_, _, _)
toArrayFrom(t, rows, i) ==
    IF i > Len(KeyOrder) THEN <<>>
    ELSE SetToSeq({r \in rows : KeyOf(t, r) = KeyOrder[i]}) \o toArrayFrom(t, rows, i + 1)

\* table.toArray(): all records, ordered by primary key
toArray(t, rows) == toArrayFrom(t, rows, 1)

PutKeepsOld(t, rows, r) == rows \cup {r}

\* table.put(record): insert, or replace the record with the same primary key
Put(t, rows, r) == {x \in rows : KeyOf(t, x) # KeyOf(t, r)} \cup {r}

\* a delete that empties the table
DeleteEmpties(t, rows, id) == {}

\* table.delete(id)
Delete(t, rows, id) == {x \in rows : KeyOf(t, x) # id}

RECURSIVE BulkAddFrom(_, _, _, _)
BulkAddFrom(t, rows, arr, i) ==
    IF i > Len(arr) THEN [ok |-> TRUE, rows |-> rows]
    ELSE IF KeyOf(t, arr[i]) \in Keys(t, rows)
         THEN LET rest == BulkAddFrom(t, rows, arr, i + 1)
              IN  [ok |-> FALSE, rows |-> rest.rows]
         ELSE BulkAddFrom(t, rows \cup {arr[i]}, arr, i + 1)

\* table.bulkAdd(records): adds every record whose key is free; rejects
\* (BulkError) when at least one key collides
BulkAdd(t, rows, arr) == BulkAddFrom(t, rows, arr, 1)

ClearAllButSettings(tables) == [t \in Tables |-> IF t = "settings" THEN tables[t] ELSE {}]

\* Promise.all(Object.values(dbTyped).map(table => table.clear()))
ClearAll(tables) == [t \in Tables |-> {}]

RollbackLost(committed, work) == work

\* an aborted transaction leaves the committed contents in place
Rollback(committed, work) == committed

-----------------------------------------------------------------------------
(* Records and backup files *)

Teacher(id, name) == [id |-> id, name |-> name]

Report(id, teacherName) ==
    [id |-> id, teacherName |-> teacherName, subject |-> "Math", date |-> 1]

Setting(key, value) == [key |-> key, value |-> value]

TeacherNames == {"Ann", "Bob"}

\* a parsed backup document: JSON null, or an object with some of the five arrays
NullDoc == [isNull |-> TRUE, arrays |-> [t \in {} |-> <<>>]]

Doc(arrays) == [isNull |-> FALSE, arrays |-> arrays]

NoFile == [kind |-> "none", data |-> NullDoc]

GarbageFile == [kind |-> "garbage", data |-> NullDoc]

\* JSON.stringify(data, null, 2): the text of a JSON document
Stringify(value) == [kind |-> "json", data |-> value]

\* JSON.parse(text): throws on text that is not JSON
Parse(file) == [ok |-> file.kind = "json", data |-> file.data]

NullFile == Stringify(NullDoc)

FullFile == Stringify(Doc([t \in Tables |->
    CASE t = "teachers" -> <<Teacher("1", "Ann"), Teacher("2", "Bob")>>
      [] t = "settings" -> <<Setting("schoolName", "Hill School")>>
      [] OTHER -> <<Report("1", "Ann")>>]))

TeachersOnlyFile == Stringify(Doc([t \in {"teachers", "bookCheckingReports"} |->
    IF t = "teachers" THEN <<Teacher("2", "Ann")>> ELSE <<>>]))

\* two teachers with the same id: the first bulkAdd of the import fails
DupTeachersFile == Stringify(Doc([t \in Tables |->
    CASE t = "teachers" -> <<Teacher("1", "Ann"), Teacher("1", "Bob")>>
      [] t = "settings" -> <<Setting("schoolName", "Hill School")>>
      [] OTHER -> <<Report("2", "Bob")>>]))

\* two settings with the same key: the last bulkAdd of the import fails
DupSettingsFile == Stringify(Doc([t \in Tables |->
    CASE t = "teachers" -> <<Teacher("2", "Bob")>>
      [] t = "settings" -> <<Setting("schoolName", "A"), Setting("schoolName", "B")>>
      [] OTHER -> <<Report("2", "Bob")>>]))

\* the files the user can pick in the import file input
ImportFiles ==
    {GarbageFile, NullFile, FullFile, TeachersOnlyFile, DupTeachersFile, DupSettingsFile}
        \cup (IF backup = NoFile THEN {} ELSE {backup})

\* what the user can type into the prompt of clear-all; the last is a cancelled prompt
PromptInputs == {"DELETE", "delete", "DELETE ", "", "<null>"}

ExportDataWithoutSettings(tables) ==
    Doc([t \in Tables \ {"settings"} |-> toArray(t, tables[t])])

\* the data object built by handleExportData
ExportDataOf(tables) == Doc([t \in Tables |-> toArray(t, tables[t])])

Range(seq) == {seq[i] : i \in 1..Len(seq)}

\* history record of a handler step: the handler, the table and key it names,
\* its input, how it ended, and the file it read (imports)
Step(op, table, key, arg, outcome) ==
    [op |-> op, table |-> table, key |-> key, arg |-> arg, outcome |-> outcome,
     file |-> NoFile]

\* whether the store holds no record at all
StoreState(tables) == IF tables = EmptyDb THEN "empty" ELSE "nonempty"

-----------------------------------------------------------------------------
(* Initial state: a fresh database, nothing imported or exported *)

StoreInit ==
    /\ db = EmptyDb
    /\ now = 1
    /\ ops = 0
    /\ backup = NoFile
    /\ exportedFrom = EmptyDb
    /\ last = Step("init", "", "", "", "")

\* useState<T | undefined>(undefined): no result yet
Undefined == [has |-> FALSE, rows |-> <<>>, stamp |-> 0]

LStep(op, sub) == [op |-> op, sub |-> sub]

\* no consumer of the hook is mounted
NoConsumer ==
    /\ mounted = FALSE
    /\ deps = ""
    /\ subs = <<>>
    /\ data = Undefined
    /\ logs = 0
    /\ version = 0
    /\ lastL = LStep("init", 0)

\* '' in a date input
NoDate == 0

\* no report module under observation: useState('') x3, useState('date-desc')
NoList ==
    /\ reports = <<>>
    /\ searchQuery = ""
    /\ filterStartDate = NoDate
    /\ filterEndDate = NoDate
    /\ sortBy = "date-desc"
    /\ displayed = <<>>
    /\ tz = 0

\* null and undefined
Null == "null"

\* no report: the undefined of reports.find and of the state of an unmounted form
NoReport == [id |-> Null]

MStep(op, from, alert) == [op |-> op, from |-> from, alert |-> alert]

\* no report module under observation
NoModule ==
    /\ kind = "supervision"
    /\ view = "LIST"
    /\ selectedReportId = Null
    /\ initialReportIdToShow = Null
    /\ formData = NoReport
    /\ errors = {}
    /\ changes = 0
    /\ pending = {}
    /\ unhandled = 0
    /\ lastM = MStep("init", "", "")

\* what generateBulkPdfDocument returns: null, or a document of pages, each
\* page the images placed on it
NoPdf == [isNull |-> TRUE, pages |-> <<>>]

Pdf(pages) == [isNull |-> FALSE, pages |-> pages]

EStep(op, alert, elementIds, pdf) ==
    [op |-> op, alert |-> alert, elementIds |-> elementIds, pdf |-> pdf]

\* no bulk export under observation: useState(false)
NoExport ==
    /\ isBulkExporting = FALSE
    /\ timers = <<>>
    /\ running = <<>>
    /\ saved = <<>>
    /\ requests = 0
    /\ lastE = EStep("init", "", <<>>, NoPdf)

\* what the detail view's export step records
PStep(op, alert) == [op |-> op, alert |-> alert]

\* the detail view's preview: useState(false), useState(null)
NoPreview ==
    /\ isPreviewOpen = FALSE
    /\ pdfDoc = NoPdf
    /\ lastP = PStep("init", "")

NoFeedback == [type |-> "", message |-> ""]

SStep(op) == [op |-> op]

\* the settings module as it mounts: every input '', nothing delivered
NoSettings ==
    /\ settingsData = [has |-> FALSE, rows |-> <<>>]
    /\ fields = [k \in Range(SETTING_KEYS) |-> ""]
    /\ isSaving = FALSE
    /\ saving = <<>>
    /\ feedback = NoFeedback
    /\ edits = 0
    /\ lastS = SStep("init")

\* useState<{ page; id } | null>(null)
NoActiveReport == [page |-> Null, id |-> Null]

NStep(op) == [op |-> op]

\* the shell as it mounts: the dashboard, no request pending
NoNavigation ==
    /\ page = "DASHBOARD"
    /\ activeTeacherId = Null
    /\ activeReport = NoActiveReport
    /\ teacherToEdit = Null
    /\ lastN = NStep("init")

\* useLiveQuery before its first delivery: undefined, read as [] by '?? []'
NoTeachers == [has |-> FALSE, rows |-> {}]

\* no effect is waiting to run
NoEffect == [pending |-> FALSE, id |-> Null, rows |-> {}]

\* history record of a step of the teacher module: the step, and the edit
\* request the handler was given
TStep(op, request) == [op |-> op, request |-> request]

\* the teacher module is not mounted
NoTeacherModule ==
    /\ teacherView = "LIST"
    /\ selectedTeacher = Null
    /\ teachers = NoTeachers
    /\ teacherEffect = NoEffect
    /\ saves = {}
    /\ due = FALSE
    /\ lastT = TStep("init", Null)

\* the pages and modules that are not under observation
NoPages == NoPreview /\ NoSettings /\ NoNavigation /\ NoTeacherModule

Init == StoreInit /\ dexie = TRUE /\ NoConsumer /\ NoList /\ NoModule /\ NoExport /\ NoPages

-----------------------------------------------------------------------------
(* Report modules and teacher module: save and delete *)

\* handleSubmit + handleSave of a report module: the form is only opened empty,
\* so the id is Date.now().toString(); then table.put(report). The clock reads
\* the value it read last time or a later one.
SaveReport(t, teacherName, elapsed) ==
    /\ ops < MaxOps
    /\ now' = now + elapsed
    /\ LET report == Report(ToString(now'), teacherName)
       IN  /\ db' = [db EXCEPT ![t] = Put(t, @, report)]
           /\ last' = Step("save", t, report.id, teacherName,
                           IF report.id \in Keys(t, db[t]) THEN "replaced" ELSE "added")
    /\ ops' = ops + 1
    /\ UNCHANGED <<backup, exportedFrom>>

\* a teacher save that also renames the reports of the teacher
SaveTeacherCascades(initialId, name, elapsed) ==
    /\ ops < MaxOps
    /\ now' = IF initialId # "" THEN now ELSE now + elapsed
    /\ LET teacher == Teacher(IF initialId # "" THEN initialId ELSE ToString(now'), name)
           oldNames == {x.name : x \in {y \in db["teachers"] : y.id = teacher.id}}
       IN  /\ db' = [t \in Tables |->
                       IF t = "teachers" THEN Put(t, db[t], teacher)
                       ELSE IF t \in ReportTables
                       THEN {IF r.teacherName \in oldNames
                             THEN [r EXCEPT !.teacherName = name] ELSE r : r \in db[t]}
                       ELSE db[t]]
           /\ last' = Step("save", "teachers", teacher.id, name,
                           IF teacher.id \in Keys("teachers", db["teachers"])
                           THEN "replaced" ELSE "added")
    /\ ops' = ops + 1
    /\ UNCHANGED <<backup, exportedFrom>>

\* TeacherForm.handleSubmit + handleSave: id is initialData?.id || Date.now().toString()
SaveTeacher(initialId, name, elapsed) ==
    /\ ops < MaxOps
    /\ now' = IF initialId # "" THEN now ELSE now + elapsed
    /\ LET teacher == Teacher(IF initialId # "" THEN initialId ELSE ToString(now'), name)
       IN  /\ db' = [db EXCEPT !["teachers"] = Put("teachers", @, teacher)]
           /\ last' = Step("save", "teachers", teacher.id, name,
                           IF teacher.id \in Keys("teachers", db["teachers"])
                           THEN "replaced" ELSE "added")
    /\ ops' = ops + 1
    /\ UNCHANGED <<backup, exportedFrom>>

\* handleDelete of a report module or of the teacher module
DeleteRecord(t, id, confirmed) ==
    /\ ops < MaxOps
    /\ db' = IF confirmed THEN [db EXCEPT ![t] = Delete(t, @, id)] ELSE db
    /\ last' = IF confirmed THEN Step("delete", t, id, "", "ok")
                ELSE Step("delete", "", "", "", "declined")
    /\ ops' = ops + 1
    /\ UNCHANGED <<now, backup, exportedFrom>>

-----------------------------------------------------------------------------
(* SettingsModule: exportort, clear-all *)

\* handleExportData: read the five tables, stringify, download
ExportData ==
    /\ ops < MaxOps
    /\ ops' = ops + 1
    /\ backup' = Stringify(ExportDataOf(db))
    /\ exportedFrom' = db
    /\ last' = Step("export", "", "", "", "ok")
    /\ UNCHANGED <<db, now>>

RECURSIVE ImportBulkAdds(_, _, _)
\* the five guarded bulkAdd calls of the transaction body, from the i-th on:
\*   if (data.<table>) await dbTyped.<table>.bulkAdd(data.<table>)
\* the first one that rejects ends the body
ImportBulkAdds(work, doc, i) ==
    IF i > Len(TableNames) THEN [ok |-> TRUE, work |-> work, error |-> "", table |-> ""]
    ELSE LET t == TableNames[i]
         IN  IF doc.isNull
             THEN [ok |-> FALSE, work |-> work, error |-> "type_error", table |-> t]
             ELSE IF t \notin DOMAIN doc.arrays THEN ImportBulkAdds(work, doc, i + 1)
             ELSE LET r == BulkAdd(t, work[t], doc.arrays[t])
                      added == [work EXCEPT ![t] = r.rows]
                  IN  IF r.ok THEN ImportBulkAdds(added, doc, i + 1)
                      ELSE [ok |-> FALSE, work |-> added, error |-> "bulk_error", table |-> t]

\* the body of the import transaction, run on the contents the tables have
\* when it starts
ImportBody(tables, doc) == ImportBulkAdds(ClearAll(tables), doc, 1)

ImportStep(file, table, outcome) ==
    [Step("import", table, StoreState(db), "", outcome) EXCEPT !.file = file]

\* handleImportData and its reader.onload callback: the user picks a file and
\* answers the confirmation; the text is parsed; one 'rw' transaction over all
\* five tables clears them and bulkAdds the arrays of the file. The transaction
\* commits when its body returns, and aborts when the body throws or the commit
\* itself fails.
ImportData(file, confirmed, commitFails) ==
    /\ LET parsed == Parse(file)
           body == ImportBody(db, parsed.data)
       IN  IF ~confirmed
           THEN /\ last' = Step("import", "", "", "", "declined")
                /\ UNCHANGED db
           ELSE IF ~parsed.ok
           THEN /\ last' = ImportStep(file, "", "parse_error")
                /\ UNCHANGED db
           ELSE IF body.ok /\ ~commitFails
           THEN /\ db' = body.work
                /\ last' = ImportStep(file, "", "ok")
           ELSE /\ db' = Rollback(db, body.work)
                /\ last' = ImportStep(file, body.table,
                                      IF body.ok THEN "commit_error" ELSE body.error)
    /\ UNCHANGED <<now, ops, backup, exportedFrom>>

MatchesTrimmed(confirmation) == confirmation \in {"DELETE", "DELETE "}

\* confirmation === 'DELETE'
Matches(confirmation) == confirmation = "DELETE"

\* handleClearData: confirm, prompt, then one transaction clearing every table
ClearData(confirmed, confirmation, txnFails) ==
    /\ IF ~confirmed
       THEN /\ last' = Step("clear", "", "", "", "declined")
            /\ UNCHANGED db
       ELSE IF Matches(confirmation)
       THEN IF txnFails
            THEN /\ db' = Rollback(db, ClearAll(db))
                 /\ last' = Step("clear", "", StoreState(db), confirmation, "error")
            ELSE /\ db' = ClearAll(db)
                 /\ last' = Step("clear", "", StoreState(db), confirmation, "ok")
       ELSE /\ last' = Step("clear", "", StoreState(db), confirmation, "cancelled")
            /\ UNCHANGED db
    /\ UNCHANGED <<now, ops, backup, exportedFrom>>

-----------------------------------------------------------------------------

\* the handlers of the settings page and of the modules, with no consumer of
\* the live query under observation
Next ==
    \/ \E t \in ReportTables, n \in TeacherNames, e \in 0..1 :
          SaveReport(t, n, e) /\ UNCHANGED <<liveVars, listVars, uiVars>>
    \/ \E id \in Keys("teachers", db["teachers"]) \cup {""}, n \in TeacherNames, e \in 0..1 :
          SaveTeacher(id, n, e) /\ UNCHANGED <<liveVars, listVars, uiVars>>
    \/ \E t \in Tables \ {"settings"} : \E id \in Keys(t, db[t]), c \in BOOLEAN :
          DeleteRecord(t, id, c) /\ UNCHANGED <<liveVars, listVars, uiVars>>
    \/ ExportData /\ UNCHANGED <<liveVars, listVars, uiVars>>
    \/ \E f \in ImportFiles, c \in BOOLEAN, fails \in BOOLEAN :
          ImportData(f, c, fails) /\ UNCHANGED <<liveVars, listVars, uiVars>>
    \/ \E c \in BOOLEAN, typed \in PromptInputs, f \in BOOLEAN :
          ClearData(c, typed, f) /\ UNCHANGED <<liveVars, listVars, uiVars>>

Spec == Init /\ [][Next]_vars

-----------------------------------------------------------------------------
(* useLiveQuery(() => dbTyped.teachers.toArray(), deps): src/hooks/useLocalStorage.ts *)

\* the dependency arrays a consumer may render with
DepsValues == {"a", "b"}

\* a query the observable has started and whose promise has not settled:
\* not yet executed, or executed with its result (or error) in hand
Unread == [read |-> FALSE, ok |-> TRUE, rows |-> <<>>, stamp |-> 0]

\* liveQuery.subscribe({next, error}): the observable starts its first query
\* (commits counts the writes heard of since the first delivery, errors the
\* queries that failed; failed tells that the last query did)
NewSub == [closed |-> FALSE, inflight |-> {Unread}, dirty |-> FALSE, failed |-> FALSE,
           commits |-> 0, deliveries |-> 0, errors |-> 0]

UnsubscribeForgotten(s) == s

\* subscription.unsubscribe(): the effect's cleanup
Unsubscribe(s) ==
    [s EXCEPT !.closed = TRUE, !.dirty = FALSE, !.failed = FALSE,
              !.commits = 0, !.deliveries = 0, !.errors = 0]

\* the cleanup of the effect that is in place closes the subscription it created
Cleanup(ss) ==
    [i \in DOMAIN ss |-> IF i = Len(ss) THEN Unsubscribe(ss[i]) ELSE ss[i]]

MayStartQueryAlways(s) == ~s.closed

\* the observable runs one query at a time and none once closed
MayStartQuery(s) == ~s.closed /\ s.inflight = {}

StartQuery(s) == [s EXCEPT !.inflight = @ \cup {Unread}, !.dirty = FALSE]

WhileQueryingIgnored(s) == s

\* a write committed while the query is running: remembered until it settles
WhileQuerying(s) == [s EXCEPT !.dirty = TRUE]

\* what a committed write to the teachers table does to a subscription
OnMutation(s) ==
    IF s.closed THEN s
    ELSE LET counted == IF s.deliveries > 0 THEN [s EXCEPT !.commits = @ + 1] ELSE s
         IN  IF MayStartQuery(counted) THEN StartQuery(counted) ELSE WhileQuerying(counted)

\* every subscription hears of a committed write to the teachers table
Notify ==
    /\ subs' = [i \in DOMAIN subs |-> OnMutation(subs[i])]
    /\ version' = version + 1
    /\ lastL' = LStep("commit", 0)
    /\ UNCHANGED <<dexie, mounted, deps, data, logs>>

\* next: (result) => setData(result)
OnNext(d, q) == [has |-> TRUE, rows |-> q.rows, stamp |-> q.stamp]

OnErrorClears(d) == Undefined

\* error: (error) => console.error(...): the state is not touched
OnError(d) == d

\* first render of a consumer: useState(undefined), then the effect subscribes,
\* or logs and returns when window.Dexie is missing
LiveMount(d) ==
    /\ ~mounted /\ Len(subs) < MaxSubs
    /\ mounted' = TRUE
    /\ deps' = d
    /\ data' = Undefined
    /\ IF dexie
       THEN /\ subs' = Append(subs, NewSub)
            /\ lastL' = LStep("subscribe", Len(subs) + 1)
            /\ UNCHANGED logs
       ELSE /\ logs < MaxErrors
            /\ logs' = logs + 1
            /\ lastL' = LStep("no dexie", 0)
            /\ UNCHANGED subs
    /\ UNCHANGED <<dexie, version, storeVars>>

\* a render with a changed dependencies array: React runs the cleanup of the
\* previous effect, then the effect again
LiveRerender(d) ==
    /\ mounted /\ d # deps /\ Len(subs) < MaxSubs
    /\ deps' = d
    /\ IF dexie
       THEN /\ subs' = Append(Cleanup(subs), NewSub)
            /\ lastL' = LStep("subscribe", Len(subs) + 1)
            /\ UNCHANGED logs
       ELSE /\ logs < MaxErrors
            /\ logs' = logs + 1
            /\ lastL' = LStep("no dexie", 0)
            /\ UNCHANGED subs
    /\ UNCHANGED <<dexie, mounted, data, version, storeVars>>

\* the consumer is torn down: React runs the cleanup of the effect
LiveUnmount ==
    /\ mounted
    /\ mounted' = FALSE
    /\ subs' = Cleanup(subs)
    /\ lastL' = LStep("unmount", Len(subs))
    /\ UNCHANGED <<dexie, deps, data, logs, version, storeVars>>

\* the query function runs: dbTyped.teachers.toArray() reads the committed
\* table, or throws (what a cancelled subscription reads is never looked at,
\* and is not kept)
QueryRead(i, throws) ==
    /\ i \in DOMAIN subs /\ Unread \in subs[i].inflight
    /\ throws => logs < MaxErrors
    /\ LET kept == ~throws /\ ~subs[i].closed
           q == [read |-> TRUE, ok |-> ~throws,
                 rows |-> IF kept THEN toArray("teachers", db["teachers"]) ELSE <<>>,
                 stamp |-> IF kept THEN version ELSE 0]
       IN  subs' = [subs EXCEPT ![i].inflight = (@ \ {Unread}) \cup {q}]
    /\ lastL' = LStep("read", i)
    /\ UNCHANGED <<dexie, mounted, deps, data, logs, version, storeVars>>

\* the promise of a query settles. An error goes to the error callback; the
\* releases of the library differ in that the observable ends there or stays
\* subscribed, and in that the error of a cancelled subscription is reported
\* or not. A result is dropped when the subscription was closed, replaced by
\* a new query when a write was committed meanwhile, and handed to next
\* otherwise.
QuerySettle(i, q, endsOnError) ==
    /\ i \in DOMAIN subs /\ q \in subs[i].inflight /\ q.read
    /\ LET s == [subs[i] EXCEPT !.inflight = @ \ {q}]
       IN  IF s.closed /\ (q.ok \/ ~endsOnError)
           THEN /\ subs' = [subs EXCEPT ![i] = s]
                /\ lastL' = LStep("dropped", i)
                /\ UNCHANGED <<data, logs>>
           ELSE IF s.closed
           THEN /\ subs' = [subs EXCEPT ![i] = s]
                /\ data' = OnError(data)
                /\ logs' = logs + 1
                /\ lastL' = LStep("error", i)
           ELSE IF ~q.ok
           THEN /\ subs' = [subs EXCEPT ![i] =
                              IF endsOnError
                              THEN Unsubscribe([s EXCEPT !.failed = TRUE, !.errors = @ + 1])
                              ELSE [s EXCEPT !.failed = TRUE, !.errors = @ + 1]]
                /\ data' = OnError(data)
                /\ logs' = logs + 1
                /\ lastL' = LStep("error", i)
           ELSE IF s.dirty
           THEN /\ subs' = [subs EXCEPT ![i] = StartQuery(s)]
                /\ lastL' = LStep("requery", i)
                /\ UNCHANGED <<data, logs>>
           ELSE /\ subs' = [subs EXCEPT ![i] =
                              [s EXCEPT !.deliveries = @ + 1, !.failed = FALSE]]
                /\ data' = OnNext(data, q)
                /\ lastL' = LStep("deliver", i)
                /\ UNCHANGED logs
    /\ UNCHANGED <<dexie, mounted, deps, version, storeVars>>

LiveInit == StoreInit /\ dexie \in BOOLEAN /\ NoConsumer /\ NoList /\ NoModule /\ NoExport /\ NoPages

\* one consumer of the hook, and the teacher module adding and deleting
\* teachers in the table it reads
NextLive ==
    \/ \E d \in DepsValues : LiveMount(d) /\ UNCHANGED <<listVars, uiVars>>
    \/ \E d \in DepsValues : LiveRerender(d) /\ UNCHANGED <<listVars, uiVars>>
    \/ LiveUnmount /\ UNCHANGED <<listVars, uiVars>>
    \/ \E i \in DOMAIN subs, throws \in BOOLEAN : QueryRead(i, throws) /\ UNCHANGED <<listVars, uiVars>>
    \/ \E i \in DOMAIN subs : \E q \in subs[i].inflight, e \in BOOLEAN :
          QuerySettle(i, q, e) /\ UNCHANGED <<listVars, uiVars>>
    \/ \E n \in TeacherNames :
          dexie /\ SaveTeacher("", n, 1) /\ Notify /\ UNCHANGED <<listVars, uiVars>>
    \/ \E id \in Keys("teachers", db["teachers"]) :
          dexie /\ DeleteRecord("teachers", id, TRUE) /\ Notify /\ UNCHANGED <<listVars, uiVars>>

SpecLive == LiveInit /\ [][NextLive]_vars

-----------------------------------------------------------------------------
(* The list view of a report module: src/components/SupervisionModule.tsx, *)
(* and the same code in the book-checking and work-coverage modules        *)

\* the characters of the strings the list view is run on
Letters ==
    ("" :> <<>>) @@
    ("Ann" :> <<"A", "n", "n">>) @@ ("ann" :> <<"a", "n", "n">>) @@
    ("Bob" :> <<"B", "o", "b">>) @@ ("bob" :> <<"b", "o", "b">>) @@
    ("Math" :> <<"M", "a", "t", "h">>) @@ ("Art" :> <<"A", "r", "t">>) @@
    ("an" :> <<"a", "n">>) @@ ("AN" :> <<"A", "N">>) @@
    ("ma" :> <<"m", "a">>) @@ ("B" :> <<"B">>) @@ ("z" :> <<"z">>)

LowerCaseOf == ("A" :> "a") @@ ("B" :> "b") @@ ("M" :> "m") @@ ("N" :> "n")

toLowerCaseNot(str) == str

\* String.prototype.toLowerCase
toLowerCase(str) ==
    [i \in DOMAIN str |-> IF str[i] \in DOMAIN LowerCaseOf THEN LowerCaseOf[str[i]] ELSE str[i]]

\* String.prototype.includes
includes(str, sub) ==
    \E i \in 0..(Len(str) - Len(sub)) : SubSeq(str, i + 1, i + Len(sub)) = sub

\* the order of the characters in the collation of localeCompare: letters in
\* alphabetical order, and the lower-case letter before its capital
Alphabet == <<"a", "A", "b", "B", "h", "m", "M", "n", "N", "o", "r", "t", "z">>

Rank(c) == CHOOSE i \in DOMAIN Alphabet : Alphabet[i] = c

\* the first position where two sequences of numbers differ, or 0
FirstDifference(x, y) ==
    LET n == IF Len(x) < Len(y) THEN Len(x) ELSE Len(y)
        D == {i \in 1..n : x[i] # y[i]}
    IN  IF D = {} THEN 0 ELSE CHOOSE i \in D : \A j \in D : i <= j

\* lexicographic comparison: negative, zero or positive
Compare(x, y) ==
    LET d == FirstDifference(x, y)
    IN  IF d # 0 THEN x[d] - y[d] ELSE Len(x) - Len(y)

\* String.prototype.localeCompare: the letters decide, and their case only
\* between strings of the same letters
localeCompare(a, b) ==
    LET la == toLowerCase(Letters[a])
        lb == toLowerCase(Letters[b])
        letters == Compare([i \in DOMAIN la |-> Rank(la[i])], [i \in DOMAIN lb |-> Rank(lb[i])])
    IN  IF letters # 0 THEN letters
        ELSE Compare([i \in DOMAIN Letters[a] |-> Rank(Letters[a][i])],
                     [i \in DOMAIN Letters[b] |-> Rank(Letters[b][i])])

\* new Date(date + 'T00:00:00'): midnight of the day in local time, in hours
LocalMidnight(date, offset) == date * 24 - offset

\* new Date(date).getTime(): midnight of the day in UTC, in hours
UTCMidnight(date) == date * 24

\* the comparator given to sort
compareReports(a, b, by) ==
    CASE by = "date-asc" -> UTCMidnight(a.date) - UTCMidnight(b.date)
      [] by = "teacher-asc" -> localeCompare(a.teacherName, b.teacherName)
      [] OTHER -> UTCMidnight(b.date) - UTCMidnight(a.date)

\* one element put in its place in a sorted array, after the elements that
\* compare equal to it
RECURSIVE insert(_, _, _)
insert(sorted, x, by) ==
    IF sorted = <<>> THEN <<x>>
    ELSE IF compareReports(x, Head(sorted), by) < 0 THEN <<x>> \o sorted
    ELSE <<Head(sorted)>> \o insert(Tail(sorted), x, by)

\* Array.prototype.sort with the comparator: a stable sort
RECURSIVE sort(_, _)
sort(arr, by) ==
    IF arr = <<>> THEN <<>>
    ELSE insert(sort(SubSeq(arr, 1, Len(arr) - 1), by), arr[Len(arr)], by)

\* the three filters of the memo, each applied when its input is not empty
\* (SelectSeq is Array.prototype.filter)
filtered(arr, query, startDate, endDate, offset) ==
    LET matches(report) ==
            \/ includes(toLowerCase(Letters[report.teacherName]), toLowerCase(Letters[query]))
            \/ includes(toLowerCase(Letters[report.subject]), toLowerCase(Letters[query]))
        notBefore(report) ==
            LocalMidnight(report.date, offset) >= LocalMidnight(startDate, offset)
        notAfter(report) ==
            LocalMidnight(report.date, offset) <= LocalMidnight(endDate, offset)
        f1 == IF query # "" THEN SelectSeq(arr, matches) ELSE arr
        f2 == IF startDate # NoDate THEN SelectSeq(f1, notBefore) ELSE f1
    IN  IF endDate # NoDate THEN SelectSeq(f2, notAfter) ELSE f2

\* the value of the memo
filteredAndSortedReports(arr, query, startDate, endDate, by, offset) ==
    sort(filtered(arr, query, startDate, endDate, offset), by)

\* with no filter set, filtered is the reports array itself and sort orders
\* that array in place
Unfiltered(query, startDate, endDate) ==
    query = "" /\ startDate = NoDate /\ endDate = NoDate

\* a render of the list view: the memo is computed from the state
Render(arr, query, startDate, endDate, by) ==
    LET result == filteredAndSortedReports(arr, query, startDate, endDate, by, tz)
    IN  /\ displayed' = result
        /\ reports' = IF Unfiltered(query, startDate, endDate) THEN result ELSE arr
        /\ searchQuery' = query
        /\ filterStartDate' = startDate
        /\ filterEndDate' = endDate
        /\ sortBy' = by
        /\ UNCHANGED tz

ListReport(id, teacherName, subject, date) ==
    [id |-> id, teacherName |-> teacherName, subject |-> subject, date |-> date]

\* the reports of the table, in the order of their primary key
ReportPool ==
    << ListReport("1", "Bob", "Math", 2), ListReport("2", "bob", "Art", 1),
       ListReport("3", "Ann", "Math", 2), ListReport("4", "ann", "Art", 3) >>

RECURSIVE Pick(_, _)
Pick(pool, chosen) ==
    IF pool = <<>> THEN <<>>
    ELSE (IF Head(pool).id \in chosen THEN <<Head(pool)>> ELSE <<>>) \o Pick(Tail(pool), chosen)

\* what toArray() can deliver: some of the reports, ordered by id
DeliveredArrays ==
    {Pick(ReportPool, chosen) :
        chosen \in {c \in SUBSET {ReportPool[i].id : i \in DOMAIN ReportPool} :
                        Cardinality(c) <= MaxReports}}

SearchQueries == {"", "an", "AN", "ma", "B", "z"}

DateInputs == {NoDate} \cup 1..MaxDay

SortOptions == {"date-desc", "date-asc", "teacher-asc"}

TimeZones == {-12, 0, 14}

\* the module is mounted and its first render runs on the first delivery
ListInit ==
    /\ StoreInit /\ dexie = TRUE /\ NoConsumer /\ NoModule /\ NoExport /\ NoPages
    /\ tz \in TimeZones
    /\ reports = <<>> /\ displayed = <<>>
    /\ searchQuery = "" /\ filterStartDate = NoDate /\ filterEndDate = NoDate
    /\ sortBy = "date-desc"

\* the live query delivers a new array
DeliverReports(arr) ==
    /\ arr # reports
    /\ Render(arr, searchQuery, filterStartDate, filterEndDate, sortBy)

\* onChange of the search box
SetSearchQuery(query) ==
    /\ query # searchQuery
    /\ Render(reports, query, filterStartDate, filterEndDate, sortBy)

\* onChange of the two date inputs
SetFilterStartDate(date) ==
    /\ date # filterStartDate
    /\ Render(reports, searchQuery, date, filterEndDate, sortBy)

SetFilterEndDate(date) ==
    /\ date # filterEndDate
    /\ Render(reports, searchQuery, filterStartDate, date, sortBy)

\* onChange of the sort selector
SetSortBy(by) ==
    /\ by # sortBy
    /\ Render(reports, searchQuery, filterStartDate, filterEndDate, by)

NextList ==
    \/ \E arr \in DeliveredArrays : DeliverReports(arr) /\ UNCHANGED <<storeVars, liveVars, uiVars>>
    \/ \E query \in SearchQueries : SetSearchQuery(query) /\ UNCHANGED <<storeVars, liveVars, uiVars>>
    \/ \E date \in DateInputs : SetFilterStartDate(date) /\ UNCHANGED <<storeVars, liveVars, uiVars>>
    \/ \E date \in DateInputs : SetFilterEndDate(date) /\ UNCHANGED <<storeVars, liveVars, uiVars>>
    \/ \E by \in SortOptions : SetSortBy(by) /\ UNCHANGED <<storeVars, liveVars, uiVars>>

SpecList == ListInit /\ [][NextList]_vars

-----------------------------------------------------------------------------
(* A report module and its form: src/components/SupervisionModule.tsx,     *)
(* BookCheckingModule (src/unnamed/part_003), WorkCoverageModule (part_005) *)

Kinds == {"supervision", "bookChecking", "workCoverage"}

TableOf(k) == k \o "Reports"

ValidatedCommonOnly(k) == <<"teacherName", "className", "subject", "date">>

\* the fields of the form that validateForm reads, in the order it reads them
Validated(k) ==
    CASE k = "supervision" ->
            <<"teacherName", "className", "subject", "date", "lessonObjectives",
              "teachingMethods", "learnerEngagement", "classroomManagement",
              "useOfTeachingAids", "assessmentAndFeedback", "strengths", "weaknesses",
              "recommendations">>
      [] k = "bookChecking" ->
            <<"teacherName", "className", "subject", "date", "booksChecked",
              "markingRegularity", "feedbackQuality", "learnerNeatness">>
      [] k = "workCoverage" ->
            <<"teacherName", "className", "subject", "date", "plannedTopics",
              "completedTopics", "teacherSignature", "supervisorSignature">>

\* the star ratings of a form (the supervision rating is not validated)
Ratings(k) ==
    CASE k = "supervision" -> {"rating"}
      [] k = "bookChecking" -> {"markingRegularity", "feedbackQuality", "learnerNeatness"}
      [] k = "workCoverage" -> {}

FormFields(k) == {"id"} \cup Range(Validated(k)) \cup Ratings(k)

\* const emptyForm
emptyForm(k) == [f \in FormFields(k) |-> IF f \in Ratings(k) THEN 0 ELSE ""]

\* String.prototype.trim
trim(str) == IF str = " " THEN "" ELSE str

Number(n) == [nan |-> FALSE, value |-> n]

NaN == [nan |-> TRUE, value |-> 0]

\* parseInt, on what a number input can hold
parseInt(str) ==
    CASE str = "2" -> Number(2)
      [] str = "0" -> Number(0)
      [] str = "-1" -> Number(-1)
      [] OTHER -> NaN

\* n <= m of JavaScript: false when n is NaN
AtMost(n, m) == ~n.nan /\ n.value <= m

\* one 'if (...) newErrors.field = ...' of validateForm: whether it sets the error
Fails(k, fd, f) ==
    CASE f \in Ratings(k) -> fd[f] = 0
      [] f \in {"date", "teacherSignature", "supervisorSignature"} -> fd[f] = ""
      [] f = "booksChecked" ->
            \/ trim(fd[f]) = ""
            \/ AtMost(parseInt(fd[f]), 0)
      [] OTHER -> trim(fd[f]) = ""

validateFormFirstOnly(k, fd) ==
    LET V == Validated(k)
        bad == {i \in DOMAIN V : Fails(k, fd, V[i])}
    IN  IF bad = {} THEN {} ELSE {V[CHOOSE i \in bad : \A j \in bad : i <= j]}

\* validateForm: the keys of newErrors
validateForm(k, fd) == {f \in Range(Validated(k)) : Fails(k, fd, f)}

\* what a change event can put in a field
FieldValues(k, f) ==
    CASE f \in Ratings(k) -> {1}
      [] f \in {"date", "teacherSignature", "supervisorSignature"} -> {"", "x"}
      [] f = "booksChecked" -> {"", "0", "-1", "2"}
      [] OTHER -> {"", " ", "x"}

\* a form with every field filled in
FilledForm(k) ==
    [f \in FormFields(k) |->
        IF f = "id" THEN ""
        ELSE IF f \in Ratings(k) THEN 1
        ELSE IF f = "booksChecked" THEN "2" ELSE "x"]

\* reports.find(r => r.id === selectedReportId)
selectedReport(arr, id) ==
    LET found == {i \in DOMAIN arr : arr[i].id = id}
    IN  IF found = {} THEN NoReport ELSE arr[CHOOSE i \in found : \A j \in found : i <= j]

\* what the module renders: the form, the detail view, or the list
\* a render that follows the view alone
ScreenOfView == view

\* what the module renders
Screen ==
    IF view = "FORM" THEN "FORM"
    ELSE IF view = "DETAIL" /\ selectedReport(reports, selectedReportId) # NoReport THEN "DETAIL"
    ELSE "LIST"

\* the form mounts with useState(initialData || emptyForm) and no errors
MountForm(id) ==
    /\ formData' = (IF selectedReport(reports, id) # NoReport
                    THEN selectedReport(reports, id) ELSE emptyForm(kind))
    /\ errors' = {}
    /\ changes' = 0

UnmountForm == formData' = NoReport /\ errors' = {} /\ changes' = 0

\* 'add new' that keeps the selection
AddNewKeepsSelection ==
    /\ Screen = "LIST"
    /\ view' = "FORM"
    /\ selectedReportId' = selectedReportId
    /\ MountForm(selectedReportId)
    /\ lastM' = MStep("add new", view, "")
    /\ UNCHANGED <<kind, initialReportIdToShow, pending, unhandled, storeVars, reports>>

\* onAddNew: setSelectedReportId(null); setView('FORM')
AddNew ==
    /\ Screen = "LIST"
    /\ view' = "FORM"
    /\ selectedReportId' = Null
    /\ MountForm(Null)
    /\ lastM' = MStep("add new", view, "")
    /\ UNCHANGED <<kind, initialReportIdToShow, pending, unhandled, storeVars, reports>>

\* a list item that opens the form on the report
SelectOpensForm(id) ==
    /\ Screen = "LIST"
    /\ view' = "FORM"
    /\ selectedReportId' = id
    /\ MountForm(id)
    /\ lastM' = MStep("select", view, "")
    /\ UNCHANGED <<kind, initialReportIdToShow, pending, unhandled, storeVars, reports>>

\* onSelect of a list item: setSelectedReportId(id); setView('DETAIL')
Select(id) ==
    /\ Screen = "LIST"
    /\ view' = "DETAIL"
    /\ selectedReportId' = id
    /\ lastM' = MStep("select", view, "")
    /\ UNCHANGED <<kind, initialReportIdToShow, formData, errors, changes, pending,
                   unhandled, storeVars, reports>>

\* handleBackToList: 'back' of the detail view and 'cancel' of the form
handleBackToList ==
    /\ Screen \in {"FORM", "DETAIL"}
    /\ view' = "LIST"
    /\ selectedReportId' = Null
    /\ initialReportIdToShow' = Null
    /\ UnmountForm
    /\ lastM' = MStep(IF Screen = "FORM" THEN "cancel" ELSE "back", view, "")
    /\ UNCHANGED <<kind, pending, unhandled, storeVars, reports>>

\* handleChange, handleRatingChange, handleSignatureChange: one field is set
\* and its error, if any, is removed (a rating keeps its error)
handleChange(name, value) ==
    /\ Screen = "FORM" /\ changes < MaxChanges
    /\ formData[name] # value
    /\ formData' = [formData EXCEPT ![name] = value]
    /\ errors' = IF name \in Ratings(kind) THEN errors ELSE errors \ {name}
    /\ changes' = changes + 1
    /\ lastM' = MStep("change", view, "")
    /\ UNCHANGED <<kind, view, selectedReportId, initialReportIdToShow, pending,
                   unhandled, storeVars, reports>>

\* the change events that fill in the whole form
FillForm ==
    /\ Screen = "FORM" /\ formData # FilledForm(kind)
    /\ formData' = [f \in FormFields(kind) |-> IF f = "id" THEN formData[f] ELSE FilledForm(kind)[f]]
    /\ errors' = errors \cap Ratings(kind)
    /\ lastM' = MStep("fill", view, "")
    /\ UNCHANGED <<kind, view, selectedReportId, initialReportIdToShow, changes, pending,
                   unhandled, storeVars, reports>>

\* handleSubmit: validateForm, then onSave with the id of the form or a new
\* one, or the alert. handleSave starts the put and awaits it.
handleSubmit(elapsed) ==
    /\ Screen = "FORM"
    /\ errors' = validateForm(kind, formData)
    /\ IF errors' = {}
       THEN /\ ops < MaxOps
            /\ ops' = ops + 1
            /\ now' = IF formData["id"] # "" THEN now ELSE now + elapsed
            /\ pending' = pending \cup
                  {[formData EXCEPT !["id"] = IF @ # "" THEN @ ELSE ToString(now')]}
            /\ lastM' = MStep("submit", view, "")
       ELSE /\ lastM' = MStep("submit", view, "Please fill out all required fields.")
            /\ UNCHANGED <<ops, now, pending>>
    /\ UNCHANGED <<kind, view, selectedReportId, initialReportIdToShow, formData, changes,
                   unhandled, db, backup, exportedFrom, last, reports>>

\* the put of handleSave settles. Resolved: the record is in the table, then
\* setView('LIST'); setSelectedReportId(null). Rejected: handleSave rejects,
\* and nothing awaits or catches the promise onSave returned.
PutSettles(report, rejects) ==
    /\ report \in pending
    /\ pending' = pending \ {report}
    /\ IF rejects
       THEN /\ unhandled < MaxErrors
            /\ unhandled' = unhandled + 1
            /\ lastM' = MStep("put rejected", view, "")
            /\ UNCHANGED <<db, view, selectedReportId, formData, errors, changes>>
       ELSE /\ db' = [db EXCEPT ![TableOf(kind)] = Put(TableOf(kind), @, report)]
            /\ view' = "LIST"
            /\ selectedReportId' = Null
            /\ UnmountForm
            /\ lastM' = MStep("put resolved", view, "")
            /\ UNCHANGED unhandled
    /\ UNCHANGED <<kind, initialReportIdToShow, now, ops, backup, exportedFrom, last, reports>>

\* handleDelete of a list item: window.confirm, then table.delete(id), awaited
\* with nothing catching a rejection
handleDelete(id, confirmed, rejects) ==
    /\ Screen = "LIST" /\ ops < MaxOps
    /\ ops' = ops + 1
    /\ IF ~confirmed
       THEN /\ lastM' = MStep("delete declined", view, "")
            /\ UNCHANGED <<db, unhandled>>
       ELSE IF rejects
       THEN /\ unhandled < MaxErrors
            /\ unhandled' = unhandled + 1
            /\ lastM' = MStep("delete rejected", view, "")
            /\ UNCHANGED db
       ELSE /\ db' = [db EXCEPT ![TableOf(kind)] = Delete(TableOf(kind), @, id)]
            /\ lastM' = MStep("delete", view, "")
            /\ UNCHANGED unhandled
    /\ UNCHANGED <<kind, view, selectedReportId, initialReportIdToShow, formData, errors,
                   changes, pending, now, backup, exportedFrom, last, reports>>

\* the live query of the module delivers the table
DeliverTable ==
    /\ reports # toArray(TableOf(kind), db[TableOf(kind)])
    /\ reports' = toArray(TableOf(kind), db[TableOf(kind)])
    /\ lastM' = MStep("deliver", view, "")
    /\ UNCHANGED <<kind, view, selectedReportId, initialReportIdToShow, formData, errors,
                   changes, pending, unhandled, storeVars>>

\* a report saved earlier, with the id of the millisecond it was saved in
SavedReport(k) == [FilledForm(k) EXCEPT !["id"] = "1"]

\* the shell mounts the module, with or without a report to show; the effect
\* on initialReportIdToShow has run and the live query has not delivered yet
ModuleInit ==
    /\ dexie = TRUE /\ NoConsumer /\ NoExport /\ NoPages
    /\ now = 1 /\ ops = 0 /\ backup = NoFile /\ exportedFrom = EmptyDb
    /\ last = Step("init", "", "", "", "")
    /\ kind \in Kinds
    /\ db \in {EmptyDb, [EmptyDb EXCEPT ![TableOf(kind)] = {SavedReport(kind)}]}
    /\ initialReportIdToShow \in {Null, "1", "2"}
    /\ selectedReportId = initialReportIdToShow
    /\ view = IF initialReportIdToShow # Null THEN "DETAIL" ELSE "LIST"
    /\ formData = NoReport /\ errors = {} /\ changes = 0
    /\ pending = {} /\ unhandled = 0
    /\ lastM = MStep("init", "", "")
    /\ reports = <<>> /\ displayed = <<>>
    /\ searchQuery = "" /\ filterStartDate = NoDate /\ filterEndDate = NoDate
    /\ sortBy = "date-desc" /\ tz = 0

Frame == UNCHANGED <<liveVars, exportVars, pageVars, searchQuery, filterStartDate, filterEndDate,
                     sortBy, displayed, tz>>

\* the module right after 'add new': the form is mounted with emptyForm
FormInit ==
    /\ dexie = TRUE /\ NoConsumer /\ NoExport /\ NoPages /\ StoreInit
    /\ kind \in Kinds
    /\ initialReportIdToShow = Null /\ selectedReportId = Null
    /\ view = "FORM"
    /\ formData = emptyForm(kind) /\ errors = {} /\ changes = 0
    /\ pending = {} /\ unhandled = 0
    /\ lastM = MStep("add new", "LIST", "")
    /\ reports = <<>> /\ displayed = <<>>
    /\ searchQuery = "" /\ filterStartDate = NoDate /\ filterEndDate = NoDate
    /\ sortBy = "date-desc" /\ tz = 0

\* one form session: the form is edited field by field and submitted, until
\* it is closed by 'cancel' or by a put that resolved
NextForm ==
    \/ handleBackToList /\ Frame
    \/ \E name \in FormFields(kind) \ {"id"} : \E value \in FieldValues(kind, name) :
          handleChange(name, value) /\ Frame
    \/ FillForm /\ Frame
    \/ \E elapsed \in 0..1 : handleSubmit(elapsed) /\ Frame
    \/ \E report \in pending, rejects \in BOOLEAN : PutSettles(report, rejects) /\ Frame

SpecForm == FormInit /\ [][NextForm]_vars

\* the module with its list, detail view and form, the form left empty or
\* filled in as a whole
NextModule ==
    \/ AddNew /\ Frame
    \/ \E i \in DOMAIN reports : Select(reports[i].id) /\ Frame
    \/ handleBackToList /\ Frame
    \/ FillForm /\ Frame
    \/ \E elapsed \in 0..1 : handleSubmit(elapsed) /\ Frame
    \/ \E report \in pending, rejects \in BOOLEAN : PutSettles(report, rejects) /\ Frame
    \/ \E i \in DOMAIN reports, confirmed \in BOOLEAN, rejects \in BOOLEAN :
          handleDelete(reports[i].id, confirmed, rejects) /\ Frame
    \/ DeliverTable /\ Frame

SpecModule == ModuleInit /\ [][NextModule]_vars

-----------------------------------------------------------------------------
(* Claims about the store handlers, checked under Spec *)

ImportFailures == {"parse_error", "type_error", "bulk_error", "commit_error"}

\* C1: a confirmed import that fails for any reason (text that is not JSON, a
\* body that throws, a bulkAdd that rejects on a duplicate key in any of the
\* five tables, a failed commit) leaves every table with exactly the records
\* it held when the import started.
C1_FailedImportChangesNothing ==
    [][(last'.op = "import" /\ last'.outcome \in ImportFailures) => db' = db]_vars

\* the bulkAdd of the last table (settings) rejected after the four earlier
\* ones had succeeded, on a store that held records
C1_Witness ==
    /\ last.op = "import" /\ last.outcome = "bulk_error"
    /\ last.table = "settings" /\ last.key = "nonempty"
    /\ db # EmptyDb

\* C2: importing the file written by the export into an empty store gives back,
\* table by table, the records the store held when it was exported.
C2_ExportImportRoundTrip ==
    [][(/\ last'.op = "import" /\ last'.outcome = "ok"
        /\ last'.file = backup /\ last'.key = "empty") => db' = exportedFrom]_vars

C2_Witness ==
    /\ last.op = "import" /\ last.outcome = "ok"
    /\ last.file = backup /\ last.key = "empty"
    /\ db = exportedFrom
    /\ \A t \in Tables : db[t] # {}
    /\ Cardinality(db["teachers"]) > 1

\* the records of the top-level array of a parsed file for table t
ArrayRecords(doc, t) ==
    IF t \in DOMAIN doc.arrays THEN Range(doc.arrays[t]) ELSE {}

\* C3: after an import that succeeds each table holds exactly the records of
\* its array in the file, and is empty when the file has no such array;
\* nothing that was in the store before survives unless the file has it.
C3_ImportReplacesEverything ==
    [][(last'.op = "import" /\ last'.outcome = "ok") =>
        \A t \in Tables : db'[t] = ArrayRecords(last'.file.data, t)]_vars

\* a file with only two of the arrays was imported over a store that held
\* records; the tables it does not name are now empty
C3_Witness ==
    /\ last.op = "import" /\ last.outcome = "ok"
    /\ last.file = TeachersOnlyFile /\ last.key = "nonempty"
    /\ db["settings"] = {} /\ db["teachers"] # {}

\* C4: clear-all writes only when the confirmation was accepted and the text
\* typed is exactly DELETE; then all five tables are emptied together. A
\* declined confirmation, any other text, an empty or cancelled prompt, and a
\* failed transaction leave every table as it was.
C4_ClearOnlyAfterDELETE ==
    [][last'.op = "clear" =>
        /\ (last'.outcome = "ok" => last'.arg = "DELETE" /\ db' = EmptyDb)
        /\ (last'.outcome # "ok" => db' = db)
        /\ (last'.arg # "DELETE" => db' = db /\ last'.outcome \in {"declined", "cancelled"})]_vars

C4_Witness ==
    /\ last.op = "clear" /\ last.outcome = "ok" /\ last.key = "nonempty"
    /\ db = EmptyDb

\* the name a record carries (teachers: name, reports: teacherName)
NameOf(t, r) == IF t = "teachers" THEN r.name ELSE r.teacherName

\* C5: saving a record whose id is already in its table leaves exactly one
\* record with that id, carrying the values just saved; the table keeps its
\* size, and no other record and no other table changes.
C5_UpsertReplaces ==
    [][(last'.op = "save" /\ last'.key \in Keys(last'.table, db[last'.table])) =>
        LET t == last'.table
            same == {r \in db'[t] : KeyOf(t, r) = last'.key}
        IN  /\ Cardinality(same) = 1
            /\ \A r \in same : NameOf(t, r) = last'.arg
            /\ Cardinality(db'[t]) = Cardinality(db[t])
            /\ db'[t] \ same = {r \in db[t] : KeyOf(t, r) # last'.key}
            /\ \A u \in Tables \ {t} : db'[u] = db[u]]_vars

\* a report was saved over an existing id, next to another report
C5_Witness ==
    /\ last.op = "save" /\ last.outcome = "replaced"
    /\ last.table \in ReportTables
    /\ Cardinality(db[last.table]) > 1

-----------------------------------------------------------------------------
(* Claims about the live query hook, checked under SpecLive *)

\* the subscriptions that have not been cancelled
LiveSubs == {i \in DOMAIN subs : ~subs[i].closed}

\* a subscription at rest: its last query has settled and did not fail
Settled(s) == ~s.closed /\ ~s.failed /\ s.inflight = {}

C8_AtMostOneLiveSubscription ==
    [][/\ Cardinality({i \in DOMAIN subs' : ~subs'[i].closed}) <= 1
       /\ \A i \in DOMAIN subs' : ~subs'[i].closed => i = Len(subs')
       /\ data' # data =>
             \/ lastL'.op \in {"subscribe", "no dexie"}
             \/ /\ lastL'.op = "deliver"
                /\ ~subs[lastL'.sub].closed
                /\ lastL'.sub = Len(subs)]_vars

C8_Witness ==
    /\ lastL.op = "dropped"
    /\ lastL.sub = 1
    /\ Len(subs) = 2
    /\ LiveSubs = {2}
    /\ data.has
    /\ data.stamp < version

\* C9: when the read of a live query throws, the error is logged and the hook
\* goes on returning what it returned before: the last delivered result, or
\* undefined when nothing was delivered yet.
C9_ReadErrorKeepsLastResult ==
    [][lastL'.op = "error" => (data' = data /\ logs' = logs + 1)]_vars

C9_Witness ==
    /\ lastL.op = "error"
    /\ data.has
    /\ Len(data.rows) = 1
    /\ logs = 1

-----------------------------------------------------------------------------
(* Claim about the list view, checked under SpecList *)

\* two characters that are the same letter, whatever their case
SameLetter(c, d) ==
    c = d \/ {c, d} \in {{"a", "A"}, {"b", "B"}, {"m", "M"}, {"n", "N"}}

\* the query occurs in the string, case ignored
Occurs(query, str) ==
    \E i \in 0..(Len(str) - Len(query)) :
        \A j \in 1..Len(query) : SameLetter(query[j], str[i + j])

\* the reports the list has to show
Kept(report) ==
    /\ \/ searchQuery = ""
       \/ Occurs(Letters[searchQuery], Letters[report.teacherName])
       \/ Occurs(Letters[searchQuery], Letters[report.subject])
    /\ filterStartDate = NoDate \/ report.date >= filterStartDate
    /\ filterEndDate = NoDate \/ report.date <= filterEndDate

\* the order the list has to show two reports in
InOrder(first, second) ==
    CASE sortBy = "date-desc" -> first.date >= second.date
      [] sortBy = "date-asc" -> first.date <= second.date
      [] sortBy = "teacher-asc" -> localeCompare(first.teacherName, second.teacherName) <= 0

\* C10: the displayed list holds exactly the delivered reports that match the
\* search (case ignored, in the teacher name or in the subject) and lie within
\* the two dates, boundary days included, each once, ordered by sortBy.
C10_DisplayedIsSortedFilter ==
    /\ Range(displayed) = {r \in Range(reports) : Kept(r)}
    /\ Len(displayed) = Cardinality(Range(displayed))
    /\ \A i \in 1..(Len(displayed) - 1) : InOrder(displayed[i], displayed[i + 1])

C10_Witness ==
    /\ searchQuery = "AN"
    /\ filterStartDate = 2 /\ filterEndDate = 3
    /\ sortBy = "teacher-asc"
    /\ Len(reports) = 3
    /\ Len(displayed) = 2
    /\ displayed[1].teacherName = "ann" /\ displayed[1].date = 3
    /\ displayed[2].teacherName = "Ann" /\ displayed[2].date = 2

-----------------------------------------------------------------------------
(* Claims about the report forms, checked under SpecForm *)

\* the fields a report of each kind must have
Required(k) ==
    {"teacherName", "className", "subject", "date"} \cup
    (CASE k = "supervision" ->
             {"lessonObjectives", "teachingMethods", "learnerEngagement",
              "classroomManagement", "useOfTeachingAids", "assessmentAndFeedback",
              "strengths", "weaknesses", "recommendations"}
       [] k = "bookChecking" ->
             {"booksChecked", "markingRegularity", "feedbackQuality", "learnerNeatness"}
       [] k = "workCoverage" ->
             {"plannedTopics", "completedTopics", "teacherSignature", "supervisorSignature"})

\* a required field that is missing (nothing or blanks typed, no star chosen)
\* or invalid (a number of books that is not positive)
Stars == {"rating", "markingRegularity", "feedbackQuality", "learnerNeatness"}

MissingOrInvalid(fd, f) ==
    IF f \in Stars THEN fd[f] = 0
    ELSE \/ fd[f] \in {"", " "}
         \/ f = "booksChecked" /\ fd[f] \in {"0", "-1"}

\* C11: a submit reports exactly the required fields that are missing or
\* invalid, all at once; when there is one, nothing is written, no put is
\* started, the module stays in FORM and the user is alerted; a put is started
\* only by a submit that reports no field.
C11_InvalidSubmitWritesNothing ==
    [][/\ lastM'.op = "submit" =>
             /\ errors' = {f \in Required(kind) : MissingOrInvalid(formData, f)}
             /\ errors' # {} =>
                   /\ pending' = pending /\ db' = db
                   /\ view' = "FORM" /\ formData' = formData
                   /\ lastM'.alert # ""
       /\ ~(pending' \subseteq pending) => (lastM'.op = "submit" /\ errors' = {})
       /\ db' # db => lastM'.op = "put resolved"]_vars

C11_Witness ==
    /\ lastM.op = "submit" /\ lastM.alert # ""
    /\ kind = "bookChecking"
    /\ formData["booksChecked"] = "-1" /\ formData["teacherName"] = "x"
    /\ errors = {"booksChecked"}
    /\ view = "FORM" /\ pending = {} /\ db = EmptyDb

\* the untouched supervision form: rating 0, every text field and the date empty
AllEmpty(fd) == \A f \in DOMAIN fd : IF f \in Stars THEN fd[f] = 0 ELSE fd[f] = ""

\* C12 (as stated): submitting the empty supervision form reports eleven fields.
C12_ElevenErrors ==
    [][(lastM'.op = "submit" /\ kind = "supervision" /\ AllEmpty(formData)) =>
           Cardinality(errors') = 11]_vars

\* C12: submitting the supervision form with rating 0 and every text field and
\* the date empty fails validation, reports all thirteen required fields at
\* once, and writes nothing.
C12_EmptyFormThirteenErrors ==
    [][(lastM'.op = "submit" /\ kind = "supervision" /\ AllEmpty(formData)) =>
           /\ Cardinality(errors') = 13
           /\ errors' = Required("supervision")
           /\ lastM'.alert # ""
           /\ pending' = pending /\ db' = db /\ view' = "FORM"]_vars

C12_Witness ==
    /\ lastM.op = "submit" /\ lastM.alert # ""
    /\ kind = "supervision"
    /\ formData = emptyForm("supervision")
    /\ Cardinality(errors) = 13
    /\ pending = {} /\ db = EmptyDb /\ view = "FORM"

----------------------------------------------------------------------------
\* The view state machine of a report module

Ids(arr) == {arr[i].id : i \in DOMAIN arr}

\* C13 (as stated): the module starts in LIST, or in DETAIL when an id was
\* named, and the view changes only by LIST to FORM on 'add new' with the
\* selection cleared or on 'edit', LIST to DETAIL on select, FORM to LIST on
\* a save that succeeded or on cancel, DETAIL to LIST on 'back'.
C13_OnlyStatedTransitions ==
    /\ view = (IF initialReportIdToShow # Null THEN "DETAIL" ELSE "LIST")
    /\ [][view' # view =>
            \/ /\ view = "LIST" /\ view' = "FORM"
               /\ \/ lastM'.op = "add new" /\ selectedReportId' = Null
                  \/ lastM'.op = "edit" /\ formData' = selectedReport(reports, selectedReportId')
            \/ view = "LIST" /\ view' = "DETAIL" /\ lastM'.op = "select"
            \/ view = "FORM" /\ view' = "LIST" /\ lastM'.op \in {"put resolved", "cancel"}
            \/ view = "DETAIL" /\ view' = "LIST" /\ lastM'.op = "back"]_vars

\* C13: the module starts in LIST, or in DETAIL when an id was named. The
\* list is on screen in LIST and in DETAIL while the selected id matches no
\* delivered report. The view and the selection change only by: 'add new' on
\* the list screen, to FORM with the selection cleared and an empty form;
\* select on the list screen, to DETAIL with the id of a listed report;
\* cancel, FORM to LIST without a write; 'back' on the detail screen, DETAIL
\* to LIST; a put that resolved, to LIST from whatever view the module is in.
\* Nothing enters FORM with a pre-filled form.
C13_Transitions ==
    /\ view = (IF initialReportIdToShow # Null THEN "DETAIL" ELSE "LIST")
    /\ [][/\ (view' # view \/ selectedReportId' # selectedReportId) =>
                lastM'.op \in {"add new", "select", "cancel", "back", "put resolved"}
          /\ lastM'.op = "add new" =>
                /\ Screen = "LIST" /\ view \in {"LIST", "DETAIL"}
                /\ view' = "FORM" /\ selectedReportId' = Null
                /\ formData' = emptyForm(kind)
          /\ lastM'.op = "select" =>
                /\ Screen = "LIST" /\ view \in {"LIST", "DETAIL"}
                /\ view' = "DETAIL" /\ selectedReportId' \in Ids(reports)
          /\ lastM'.op = "cancel" =>
                view = "FORM" /\ view' = "LIST" /\ selectedReportId' = Null /\ db' = db
          /\ lastM'.op = "back" =>
                Screen = "DETAIL" /\ view = "DETAIL" /\ view' = "LIST" /\ selectedReportId' = Null
          /\ lastM'.op = "put resolved" => view' = "LIST" /\ selectedReportId' = Null
          /\ view' \in {"LIST", "FORM", "DETAIL"}]_vars

\* 'add new' was pressed on the list shown while the view was DETAIL
C13_Witness ==
    /\ lastM.op = "add new" /\ lastM.from = "DETAIL"
    /\ view = "FORM" /\ selectedReportId = Null /\ formData = emptyForm(kind)

----------------------------------------------------------------------------
\* Deleting a record

\* C14: a delete the user declined leaves the store as it was; a delete the
\* user confirmed removes the record with that id, and only that record,
\* from its own table and leaves every other table as it was.
C14_DeleteRemovesOnlyThatRecord ==
    [][last'.op = "delete" =>
          IF last'.outcome = "declined" THEN db' = db
          ELSE /\ last'.outcome = "ok"
               /\ db'[last'.table] = {x \in db[last'.table] : x.id # last'.key}
               /\ Cardinality(db[last'.table] \ db'[last'.table]) = 1
               /\ \A t \in Tables \ {last'.table} : db'[t] = db[t]]_vars

\* a confirmed delete in a table that held other records, next to other
\* tables that hold records
C14_Witness ==
    /\ last.op = "delete" /\ last.outcome = "ok"
    /\ db[last.table] # {}
    /\ \E t \in Tables \ {last.table} : db[t] # {}

----------------------------------------------------------------------------
\* Store writes that fail

\* C19: a put or a delete that the store rejects is caught by the handler
\* that started it and answered with feedback to the user; no rejection is
\* left unhandled.
C19_WriteFailuresAreCaught ==
    [][lastM'.op \in {"put rejected", "delete rejected"} =>
          /\ unhandled' = unhandled
          /\ lastM'.alert # ""]_vars

----------------------------------------------------------------------------
\* TeacherProfilePage: the reports of a teacher, matched by name

Pages == <<"supervisionReports", "bookCheckingReports", "workCoverageReports">>

\* reports.filter(r => r.teacherName === teacher.name).map(r => ({...r, page}))
RECURSIVE mapped(_, _, _)
mapped(arr, name, table) ==
    IF arr = <<>> THEN <<>>
    ELSE (IF Head(arr).teacherName = name
          THEN <<[page |-> table, report |-> Head(arr)]>> ELSE <<>>)
         \o mapped(Tail(arr), name, table)

\* Array.prototype.sort with (a, b) => getTime(b.date) - getTime(a.date): stable,
\* latest first
RECURSIVE insertByDate(_, _)
insertByDate(sorted, x) ==
    IF sorted = <<>> THEN <<x>>
    ELSE IF Head(sorted).report.date < x.report.date THEN <<x>> \o sorted
    ELSE <<Head(sorted)>> \o insertByDate(Tail(sorted), x)

RECURSIVE sortByDate(_, _)
sortByDate(arr, n) ==
    IF n = 0 THEN <<>> ELSE insertByDate(sortByDate(arr, n - 1), arr[n])

\* allReports of the profile page of the teacher with this id
allReports(tables, teacherId) ==
    LET found == {t \in tables["teachers"] : t.id = teacherId}
    IN  IF found = {} THEN <<>>
        ELSE LET teacher == CHOOSE t \in found : TRUE
                 all == mapped(toArray(Pages[1], tables[Pages[1]]), teacher.name, Pages[1])
                        \o mapped(toArray(Pages[2], tables[Pages[2]]), teacher.name, Pages[2])
                        \o mapped(toArray(Pages[3], tables[Pages[3]]), teacher.name, Pages[3])
             IN  sortByDate(all, Len(all))

\* C20: a save or a confirmed delete of a teacher leaves the three report
\* tables as they were; when the teacher is deleted or gets another name,
\* every report listed for the teacher before is still stored with the old
\* name and is not listed for the teacher any more.
C20_TeacherWritesDoNotCascade ==
    [][(last'.table = "teachers" /\ last'.op \in {"save", "delete"}) =>
          /\ \A t \in ReportTables : db'[t] = db[t]
          /\ \A old \in db["teachers"] :
                (old.id = last'.key /\ (last'.op = "delete" \/ old.name # last'.arg)) =>
                   \A i \in DOMAIN allReports(db, old.id) :
                      LET listed == allReports(db, old.id)[i]
                      IN  /\ listed.report \in db'[listed.page]
                          /\ listed.report.teacherName = old.name
                          /\ listed \notin Range(allReports(db', old.id))]_vars

\* teacher "1" was renamed to Bob; the reports named Ann are stored and the
\* profile page of the teacher lists none of them
C20_Witness ==
    /\ last.op = "save" /\ last.table = "teachers" /\ last.outcome = "replaced"
    /\ last.key = "1" /\ last.arg = "Bob"
    /\ \A t \in ReportTables : db[t] = {Report("1", "Ann")}
    /\ allReports(db, "1") = <<>>

----------------------------------------------------------------------------
(* Bulk export of the list view: src/components/SupervisionModule.tsx      *)
(* 359-383 and 478-493, src/utils/pdfUtils.ts                               *)

\* `bulk-pdf-supervision-${r.id}`
ElementId(id) == "bulk-pdf-supervision-" \o id

\* filteredAndSortedReports.map(r => `bulk-pdf-supervision-${r.id}`)
elementIds(list) == [i \in DOMAIN list |-> ElementId(list[i].id)]

\* the off-screen PdfDocument elements in the page: one per listed report
\* while the exporting flag is set, none otherwise
Regions(exporting, list) == IF exporting THEN Range(elementIds(list)) ELSE {}

\* the loop of generateBulkPdfDocument: generateCanvas gives null for an id
\* that is not in the page and the loop passes over it; a canvas is placed
\* on a page added for it, or on the page jsPDF starts with when i is 0
RECURSIVE bulkPages(_, _, _, _)
bulkPages(ids, dom, i, pages) ==
    IF i > Len(ids) THEN pages
    ELSE IF ids[i] \in dom
    THEN LET paged == IF i > 1 THEN Append(pages, <<>>) ELSE pages
         IN  bulkPages(ids, dom, i + 1,
                       [paged EXCEPT ![Len(paged)] = Append(@, ids[i])])
    ELSE bulkPages(ids, dom, i + 1, pages)

\* generateBulkPdfDocument(elementIds), the captures succeeding
generateBulkPdfDocument(ids, dom) ==
    IF Len(ids) = 0 THEN NoPdf ELSE Pdf(bulkPages(ids, dom, 1, << <<>> >>))

\* a handler that raises the flag without looking at the list
handleBulkExportUnchecked ==
    /\ ops < MaxOps
    /\ ops' = ops + 1
    /\ isBulkExporting' = TRUE
    /\ requests' = IF isBulkExporting THEN requests ELSE requests + 1
    /\ timers' = IF isBulkExporting THEN timers
                 ELSE Append(timers, elementIds(displayed))
    /\ lastE' = EStep("bulk export", "", elementIds(displayed), NoPdf)
    /\ UNCHANGED <<running, saved, db, now, backup, exportedFrom, last, pageVars>>

\* handleBulkExport, and the effect that follows the render when the flag
\* went up: setTimeout(performExport, 100), performExport closing over the
\* list of that render. The handler is applied in every state of the list,
\* also where the button that calls it is disabled (line 401).
handleBulkExport ==
    /\ ops < MaxOps
    /\ ops' = ops + 1
    /\ IF Len(displayed) = 0
       THEN /\ lastE' = EStep("bulk export", "No reports to export.", <<>>, NoPdf)
            /\ UNCHANGED <<isBulkExporting, requests, timers>>
       ELSE /\ isBulkExporting' = TRUE
            /\ requests' = IF isBulkExporting THEN requests ELSE requests + 1
            /\ timers' = IF isBulkExporting THEN timers
                         ELSE Append(timers, elementIds(displayed))
            /\ lastE' = EStep("bulk export", "", elementIds(displayed), NoPdf)
    /\ UNCHANGED <<running, saved, db, now, backup, exportedFrom, last, pageVars>>

\* the export effect after a render of the list: its dependencies are the
\* flag and the memoised list, so with the flag set a list that is a new
\* array schedules performExport again; nothing cancels the earlier timer
Effect(newList) ==
    /\ ops < MaxOps
    /\ ops' = ops + 1
    /\ timers' = IF isBulkExporting /\ newList
                 THEN Append(timers, elementIds(displayed')) ELSE timers
    /\ lastE' = EStep("list change", "", <<>>, NoPdf)
    /\ UNCHANGED <<isBulkExporting, running, saved, requests, pageVars, db, now, backup,
                   exportedFrom, last>>

\* a timer fires: performExport runs generateBulkPdfDocument over the ids it
\* closed over, against the page as it is now. html2canvas may reject, and
\* then performExport rejects with nothing catching it: no alert, no save,
\* and setIsBulkExporting(false) is not reached.
TimerFires(throws) ==
    /\ timers # <<>>
    /\ timers' = Tail(timers)
    /\ LET ids == Head(timers)
           dom == Regions(isBulkExporting, displayed)
       IN  IF throws
           THEN /\ Range(ids) \cap dom # {}
                /\ unhandled < MaxErrors
                /\ unhandled' = unhandled + 1
                /\ lastE' = EStep("capture rejected", "", ids, NoPdf)
                /\ UNCHANGED running
           ELSE /\ running' = Append(running, [elementIds |-> ids,
                                               pdf |-> generateBulkPdfDocument(ids, dom)])
                /\ lastE' = EStep("capture", "", ids, generateBulkPdfDocument(ids, dom))
                /\ UNCHANGED unhandled
    /\ UNCHANGED <<isBulkExporting, saved, requests, pageVars, storeVars, listVars,
                   kind, view, selectedReportId, initialReportIdToShow, formData, errors,
                   changes, pending, lastM>>

\* performExport continues after the await: pdf.save or the alert, then
\* setIsBulkExporting(false), which unmounts the off-screen elements
PerformExportEnds ==
    /\ running # <<>>
    /\ running' = Tail(running)
    /\ LET ids == Head(running).elementIds
           pdf == Head(running).pdf
       IN  IF ~pdf.isNull
           THEN /\ saved' = Append(saved, pdf)
                /\ lastE' = EStep("save", "", ids, pdf)
           ELSE /\ saved' = saved
                /\ lastE' = EStep("save", "Failed to generate bulk PDF.", ids, pdf)
    /\ isBulkExporting' = FALSE
    /\ UNCHANGED <<timers, requests, pageVars, storeVars, listVars, moduleVars>>

\* the list view after its first delivery and render
ExportInit ==
    /\ StoreInit /\ dexie = TRUE /\ NoConsumer /\ NoModule /\ NoExport /\ NoPages
    /\ tz = 0
    /\ searchQuery = "" /\ filterStartDate = NoDate /\ filterEndDate = NoDate
    /\ sortBy = "date-desc"
    /\ \E arr \in DeliveredArrays :
          /\ displayed = filteredAndSortedReports(arr, "", NoDate, NoDate, "date-desc", 0)
          /\ reports = displayed

NextExport ==
    \/ handleBulkExport /\ UNCHANGED <<liveVars, listVars, moduleVars>>
    \/ \E arr \in DeliveredArrays :
          DeliverReports(arr) /\ Effect(TRUE) /\ UNCHANGED <<liveVars, moduleVars>>
    \/ \E query \in SearchQueries :
          SetSearchQuery(query) /\ Effect(TRUE) /\ UNCHANGED <<liveVars, moduleVars>>
    \/ \E by \in SortOptions :
          /\ SetSortBy(by)
          /\ Effect(~Unfiltered(searchQuery, filterStartDate, filterEndDate))
          /\ UNCHANGED <<liveVars, moduleVars>>
    \/ \E throws \in BOOLEAN : TimerFires(throws) /\ UNCHANGED liveVars
    \/ PerformExportEnds /\ UNCHANGED liveVars

SpecExport == ExportInit /\ [][NextExport]_vars

----------------------------------------------------------------------------
\* Bulk export

\* C15: handleBulkExport on an empty list shows 'No reports to export.' and
\* does nothing else: the flag is not raised, so no off-screen element is
\* mounted, no performExport is scheduled or running, no file is saved.
C15_EmptyListIsRejected ==
    [][(lastE'.op = "bulk export" /\ Len(displayed) = 0) =>
          /\ lastE'.alert = "No reports to export."
          /\ isBulkExporting' = isBulkExporting
          /\ requests' = requests
          /\ Regions(isBulkExporting', displayed') = Regions(isBulkExporting, displayed)
          /\ timers' = timers /\ running' = running /\ saved' = saved]_vars

\* the handler has rejected an empty list and no export is under way
C15_Witness ==
    /\ lastE.op = "bulk export" /\ lastE.alert = "No reports to export."
    /\ Len(displayed) = 0
    /\ ~isBulkExporting /\ timers = <<>> /\ running = <<>> /\ saved = <<>>
    /\ requests = 0

\* C16: there are never more saved files than accepted export requests: one
\* request starts one capture-and-save, whatever happens to the list while
\* the flag is set.
C16_OneFilePerRequest == Len(saved) <= requests

\* the images of a document, page after page
RECURSIVE Images(_)
Images(pages) == IF pages = <<>> THEN {} ELSE Range(Head(pages)) \cup Images(Tail(pages))

\* C17: generateBulkPdfDocument gives, for n ids, a document of n pages
\* whose i-th page holds the image of the i-th id and nothing else, and for
\* no ids no document.
C17_OnePagePerRegion ==
    [][lastE'.op = "capture" =>
          IF Len(lastE'.elementIds) = 0 THEN lastE'.pdf = NoPdf
          ELSE /\ ~lastE'.pdf.isNull
               /\ lastE'.pdf.pages =
                     [i \in DOMAIN lastE'.elementIds |-> <<lastE'.elementIds[i]>>]]_vars

\* C18: an export attempt in which a region was missing or a capture was
\* rejected ends with an alert and without a file, and leaves the flag down.
C18_CaptureFailureAborts ==
    [][/\ (lastE'.op = "save" /\ ~(Range(lastE'.elementIds) \subseteq Images(lastE'.pdf.pages))) =>
             /\ lastE'.alert # ""
             /\ saved' = saved
             /\ ~isBulkExporting'
       /\ lastE'.op = "capture rejected" =>
             /\ lastE'.alert # ""
             /\ ~isBulkExporting']_vars

----------------------------------------------------------------------------
(* Export of one report from the detail view: SupervisionDetailView        *)
(* (src/components/SupervisionModule.tsx 174-279), generatePdfDocument      *)
(* (src/utils/pdfUtils.ts 21-53). Lengths are exact fractions of a          *)
(* millimetre.                                                              *)

\* the a4 page of jsPDF in mm: pdf.internal.pageSize.getWidth(), getHeight()
pdfWidth == 210

pdfHeight == 297

Frac(n, d) == [num |-> n, den |-> d]

\* a / b, a * b, a - b, a / 2 and a < b on fractions with positive denominators
FracDiv(a, b) == Frac(a.num * b.den, a.den * b.num)

FracMul(a, b) == Frac(a.num * b.num, a.den * b.den)

FracSub(a, b) == Frac(a.num * b.den - b.num * a.den, a.den * b.den)

FracHalf(a) == Frac(a.num, 2 * a.den)

FracLess(a, b) == a.num * b.den < b.num * a.den

FracEq(a, b) == a.num * b.den = b.num * a.den

\* a placement that never caps the height
PlacementFullWidth(canvasWidth, canvasHeight) ==
    LET ratio == Frac(canvasWidth, canvasHeight)
        imgWidth == Frac(pdfWidth, 1)
    IN  [x |-> Frac(0, 1), y |-> Frac(0, 1),
         imgWidth |-> imgWidth, imgHeight |-> FracDiv(imgWidth, ratio)]

\* the arguments of pdf.addImage(imgData, 'PNG', x, y, imgWidth, imgHeight)
Placement(canvasWidth, canvasHeight) ==
    LET ratio == Frac(canvasWidth, canvasHeight)
        fullWidth == Frac(pdfWidth, 1)
        fullHeight == Frac(pdfHeight, 1)
        tooHigh == FracLess(fullHeight, FracDiv(fullWidth, ratio))
        imgHeight == IF tooHigh THEN fullHeight ELSE FracDiv(fullWidth, ratio)
        imgWidth == IF tooHigh THEN FracMul(imgHeight, ratio) ELSE fullWidth
    IN  [x |-> FracHalf(FracSub(fullWidth, imgWidth)), y |-> Frac(0, 1),
         imgWidth |-> imgWidth, imgHeight |-> imgHeight]

\* html2canvas(input, ...) of an element: a canvas of some width and height
Canvas(elementId, width, height) == [id |-> elementId, width |-> width, height |-> height]

\* generatePdfDocument(elementId): null without the element, else a one-page
\* document with the canvas placed on it
generatePdfDocument(exists, canvas) ==
    IF ~exists THEN NoPdf
    ELSE Pdf(<< <<[canvas |-> canvas, at |-> Placement(canvas.width, canvas.height)]>> >>)

\* `supervision-report-pdf-${report.id}`
pdfElementId(id) == "supervision-report-pdf-" \o id

\* handlePreview: the detail view renders the element it names, so the
\* element exists; html2canvas may reject, and nothing catches that
handlePreview(throws, width, height) ==
    /\ ops < MaxOps
    /\ ops' = ops + 1
    /\ IF throws
       THEN /\ unhandled < MaxErrors
            /\ unhandled' = unhandled + 1
            /\ lastP' = PStep("preview rejected", "")
            /\ UNCHANGED <<pdfDoc, isPreviewOpen>>
       ELSE LET doc == generatePdfDocument(TRUE, Canvas(pdfElementId("1"), width, height))
            IN  /\ IF ~doc.isNull
                   THEN /\ pdfDoc' = doc
                        /\ isPreviewOpen' = TRUE
                        /\ lastP' = PStep("preview", "")
                   ELSE /\ lastP' = PStep("preview", "Could not generate PDF preview.")
                        /\ UNCHANGED <<pdfDoc, isPreviewOpen>>
                /\ UNCHANGED unhandled
    /\ UNCHANGED <<saved, db, now, backup, exportedFrom, last>>

\* handleDownload: pdfDoc.save(...), then the preview closes
handleDownload ==
    /\ isPreviewOpen /\ ops < MaxOps
    /\ ops' = ops + 1
    /\ IF ~pdfDoc.isNull
       THEN /\ saved' = Append(saved, pdfDoc)
            /\ isPreviewOpen' = FALSE
            /\ pdfDoc' = NoPdf
       ELSE UNCHANGED <<saved, isPreviewOpen, pdfDoc>>
    /\ lastP' = PStep("download", "")
    /\ UNCHANGED <<unhandled, db, now, backup, exportedFrom, last>>

\* handleClosePreview
handleClosePreview ==
    /\ isPreviewOpen
    /\ isPreviewOpen' = FALSE
    /\ pdfDoc' = NoPdf
    /\ lastP' = PStep("close", "")
    /\ UNCHANGED <<saved, unhandled, storeVars>>

PreviewFrame ==
    UNCHANGED <<liveVars, listVars, kind, view, selectedReportId, initialReportIdToShow,
                formData, errors, changes, pending, lastM, isBulkExporting, timers, running,
                requests, lastE, settingsVars, shellVars, teacherVars>>

NextPreview ==
    \/ \E throws \in BOOLEAN, width \in 1..MaxSide, height \in 1..MaxSide :
          handlePreview(throws, width, height) /\ PreviewFrame
    \/ handleDownload /\ PreviewFrame
    \/ handleClosePreview /\ PreviewFrame

SpecPreview == Init /\ [][NextPreview]_vars

\* the image the open preview holds
Placed == pdfDoc.pages[1][1]

\* C21: the image of a canvas of W x H pixels is placed with width w <= 210
\* and height h <= 297, w / h = W / H, w = 210 when 210 * H / W <= 297 and
\* h = 297 otherwise, x = (210 - w) / 2 >= 0 and y = 0.
C21_PlacementGeometry ==
    ~pdfDoc.isNull =>
        LET W == Frac(Placed.canvas.width, 1)
            H == Frac(Placed.canvas.height, 1)
            w == Placed.at.imgWidth
            h == Placed.at.imgHeight
            a4 == [w |-> Frac(210, 1), h |-> Frac(297, 1)]
        IN  /\ ~FracLess(a4.w, w) /\ ~FracLess(a4.h, h)
            /\ FracEq(FracDiv(w, h), FracDiv(W, H))
            /\ IF ~FracLess(a4.h, FracDiv(FracMul(a4.w, H), W))
               THEN FracEq(w, a4.w) ELSE FracEq(h, a4.h)
            /\ FracEq(Placed.at.x, FracHalf(FracSub(a4.w, w)))
            /\ ~FracLess(Placed.at.x, Frac(0, 1))
            /\ FracEq(Placed.at.y, Frac(0, 1))

\* a canvas higher than the page allows was placed with its height capped
C21_Witness ==
    /\ ~pdfDoc.isNull /\ isPreviewOpen
    /\ Placed.canvas.width = 1 /\ Placed.canvas.height = 2
    /\ FracEq(Placed.at.imgHeight, Frac(297, 1))
    /\ FracLess(Frac(0, 1), Placed.at.x)

----------------------------------------------------------------------------
\* Bulk export: what is captured, and whether the export ends

\* C22: when a capture begins, the ids handed to generateBulkPdfDocument are
\* those of the list displayed at that moment, and an off-screen element is
\* mounted for each of them.
C22_CaptureOfDisplayedList ==
    [][lastE'.op \in {"capture", "capture rejected"} =>
          /\ lastE'.elementIds = elementIds(displayed)
          /\ Range(lastE'.elementIds) \subseteq Regions(isBulkExporting, displayed)]_vars

\* timers fire and a performExport that got its document goes on
SpecExportFair ==
    /\ ExportInit
    /\ [][NextExport]_vars
    /\ WF_vars(\E throws \in BOOLEAN : TimerFires(throws) /\ UNCHANGED liveVars)
    /\ WF_vars(PerformExportEnds /\ UNCHANGED liveVars)

\* C23: whenever the exporting flag is set, it is cleared again later.
C23_FlagEventuallyCleared == isBulkExporting ~> ~isBulkExporting

----------------------------------------------------------------------------
\* Submitting a form twice

\* C24: the form session of a new report leaves at most one record in the
\* table, however often the form is submitted before its put has resolved.
C24_OneRecordPerFormSession == Cardinality(db[TableOf(kind)]) <= 1

----------------------------------------------------------------------------
\* The form and the selection

\* C25: while the view is FORM no report is selected and the form carries no
\* id, and a valid submit starts a put under the id made from the clock at
\* that moment.
C25_FormHasNoSelection ==
    /\ [](view = "FORM" => (selectedReportId = Null /\ formData["id"] = ""))
    /\ [][(lastM'.op = "submit" /\ errors' = {}) =>
             \E report \in pending' :
                /\ report.id = ToString(now')
                /\ pending' = pending \cup {report}]_vars

\* a valid form was submitted while a report was in the list
C25_Witness ==
    /\ lastM.op = "submit" /\ pending # {} /\ view = "FORM"
    /\ selectedReportId = Null
    /\ reports # <<>>

----------------------------------------------------------------------------
\* The detail view and the delivered reports

\* C26: the detail view is on screen only while the view is DETAIL and the
\* selected id is the id of a report of the latest delivery; with the view
\* DETAIL and no such report the list is on screen.
C26_DetailOnlyOfDeliveredReport ==
    /\ Screen = "DETAIL" => (view = "DETAIL" /\ selectedReportId \in Ids(reports))
    /\ (view = "DETAIL" /\ selectedReportId \notin Ids(reports)) => Screen = "LIST"

\* a navigation request named an id the delivered table does not hold
C26_Witness ==
    /\ view = "DETAIL" /\ selectedReportId = "2" /\ initialReportIdToShow = "2"
    /\ reports # <<>>
    /\ Screen = "LIST"

----------------------------------------------------------------------------
(* SettingsModule: the four inputs and 'Save All Settings'                  *)
(* (src/components/SettingsModule.tsx 24-63)                                *)

SettingValues == {"", "Hill School", "Oak"}

\* getSetting(key): settings.find(s => s.key === key)?.value || ''
getSetting(arr, key) ==
    LET found == SelectSeq(arr, LAMBDA s : s.key = key)
    IN  IF found = <<>> THEN "" ELSE Head(found).value

\* table.bulkPut(records): put, record after record
RECURSIVE bulkPut(_, _, _)
bulkPut(t, rows, arr) ==
    IF arr = <<>> THEN rows ELSE bulkPut(t, Put(t, rows, Head(arr)), Tail(arr))

\* the array handleSaveSettings hands to bulkPut
SettingRecords(values) ==
    << Setting("schoolName", values["schoolName"]),
       Setting("schoolAddress", values["schoolAddress"]),
       Setting("schoolLogo", values["schoolLogo"]),
       Setting("reportFooter", values["reportFooter"]) >>

\* the live query delivers the settings table, and the effect on [settings]
\* sets the four inputs from it
DeliverSettings ==
    /\ settingsData # [has |-> TRUE, rows |-> toArray("settings", db["settings"])]
    /\ settingsData' = [has |-> TRUE, rows |-> toArray("settings", db["settings"])]
    /\ fields' = [k \in Range(SETTING_KEYS) |-> getSetting(settingsData'.rows, k)]
    /\ lastS' = SStep("deliver")
    /\ UNCHANGED <<isSaving, saving, feedback, edits, storeVars>>

\* onChange of an input, or the logo read by handleLogoUpload
EditSetting(key, value) ==
    /\ edits < MaxChanges
    /\ fields[key] # value
    /\ fields' = [fields EXCEPT ![key] = value]
    /\ edits' = edits + 1
    /\ lastS' = SStep("edit")
    /\ UNCHANGED <<settingsData, isSaving, saving, feedback, storeVars>>

\* handleSaveSettings up to its await: setIsSaving(true), bulkPut is called
\* with the values the inputs hold in this render
handleSaveSettings ==
    /\ ~isSaving /\ ops < MaxOps
    /\ ops' = ops + 1
    /\ isSaving' = TRUE
    /\ saving' = SettingRecords(fields)
    /\ lastS' = SStep("save")
    /\ UNCHANGED <<settingsData, fields, feedback, edits, db, now, backup, exportedFrom, last>>

\* the bulkPut settles: the banner of the outcome, and setIsSaving(false)
SaveSettles(rejects) ==
    /\ isSaving
    /\ isSaving' = FALSE
    /\ saving' = <<>>
    /\ IF rejects
       THEN /\ feedback' = [type |-> "error", message |-> "Failed to save settings."]
            /\ lastS' = SStep("save failed")
            /\ UNCHANGED db
       ELSE /\ db' = [db EXCEPT !["settings"] = bulkPut("settings", @, saving)]
            /\ feedback' = [type |-> "success", message |-> "Settings saved successfully!"]
            /\ lastS' = SStep("saved")
    /\ UNCHANGED <<settingsData, fields, edits, now, ops, backup, exportedFrom, last>>

\* the module mounts over a store that holds none, one or all of the settings
SettingsInit ==
    /\ dexie = TRUE /\ NoConsumer /\ NoList /\ NoModule /\ NoExport /\ NoPages
    /\ now = 1 /\ ops = 0 /\ backup = NoFile /\ exportedFrom = EmptyDb
    /\ last = Step("init", "", "", "", "")
    /\ \E stored \in SUBSET Range(SETTING_KEYS) :
          /\ stored \in {{}, {"schoolName"}, Range(SETTING_KEYS)}
          /\ db = [EmptyDb EXCEPT !["settings"] = {Setting(k, "Hill School") : k \in stored}]

SettingsFrame ==
    UNCHANGED <<liveVars, listVars, moduleVars, exportVars, previewVars, shellVars,
                teacherVars>>

NextSettings ==
    \/ DeliverSettings /\ SettingsFrame
    \/ \E key \in Range(SETTING_KEYS), value \in SettingValues :
          EditSetting(key, value) /\ SettingsFrame
    \/ handleSaveSettings /\ SettingsFrame
    \/ \E rejects \in BOOLEAN : SaveSettles(rejects) /\ SettingsFrame

SpecSettings == SettingsInit /\ [][NextSettings]_vars

\* C27: a save pressed while no input was ever edited leaves each of the
\* four settings with the value it had in the store when the save was
\* pressed, whether or not the settings have been delivered yet.
C27_UneditedSaveKeepsSettings ==
    [][(lastS'.op = "saved" /\ edits = 0) =>
          \A k \in Range(SETTING_KEYS) :
             getSetting(toArray("settings", db'["settings"]), k)
                = getSetting(toArray("settings", db["settings"]), k)]_vars

----------------------------------------------------------------------------
\* The displayed list and the history of the view

\* C28: the displayed list is what filtering and sorting give for the table
\* as the store holds it (toArray: by primary key) under the current search
\* text, dates and sort order, whatever was selected before.
C28_DisplayedIsFunctionOfStoreAndSettings ==
    displayed = filteredAndSortedReports(Pick(ReportPool, Ids(reports)), searchQuery,
                                         filterStartDate, filterEndDate, sortBy, tz)

----------------------------------------------------------------------------
(* The shell: App (src/unnamed/part_000), Header (src/unnamed/part_001),    *)
(* and the teacher module it renders (TeacherManagementModule.tsx)          *)

\* the items of the header
NavItems == {"DASHBOARD", "TEACHERS", "SUPERVISION", "BOOK_CHECKING", "WORK_COVERAGE",
             "SETTINGS"}

ReportPages == {"SUPERVISION", "BOOK_CHECKING", "WORK_COVERAGE"}

\* the ids of the teachers and reports the pages offer
RecordIds == {"1", "2"}

\* renderPage: the component on screen
Rendered ==
    CASE page = "TEACHERS" -> "TeacherManagementModule"
      [] page = "TEACHER_PROFILE" ->
            IF activeTeacherId # Null THEN "TeacherProfilePage" ELSE "Dashboard"
      [] page \in ReportPages -> "ReportModule"
      [] page = "SETTINGS" -> "SettingsModule"
      [] OTHER -> "Dashboard"

\* the initialReportIdToShow a report module on this page is given
ReportIdToShow(p) == IF activeReport.page = p THEN activeReport.id ELSE Null

\* useEffect(..., [initialTeacherToEditId, teachers]): the callback a render
\* leaves behind, closed over the request and the array of that render. React
\* runs it after the render is committed, and before it handles a user event
\* or renders again
Scheduled(id, result) == [pending |-> TRUE, id |-> id, rows |-> result.rows]

\* no effect is waiting: user events and deliveries are handled
Idle == ~teacherEffect.pending

\* whether the effect finds the teacher it is asked to edit
EffectOpens(e) == e.pending /\ e.id # Null /\ \E t \in e.rows : t.id = e.id

\* the handleSave calls of a module instance that is gone
Orphaned(ss) == {[s EXCEPT !.orphan = TRUE] : s \in ss}

\* what a navigation step does to the teacher module: it is mounted when the
\* page becomes TEACHERS, unmounted when the page leaves TEACHERS, and
\* rendered again when its initialTeacherToEditId changes
TeacherModuleFollows ==
    IF page' = "TEACHERS" /\ page # "TEACHERS"
    THEN /\ teacherView' = "LIST"
         /\ selectedTeacher' = Null
         /\ teachers' = NoTeachers
         /\ teacherEffect' = Scheduled(teacherToEdit', NoTeachers)
         /\ due' = TRUE
         /\ lastT' = TStep("mount", Null)
         /\ UNCHANGED saves
    ELSE IF page = "TEACHERS" /\ page' # "TEACHERS"
    THEN /\ teacherView' = "LIST"
         /\ selectedTeacher' = Null
         /\ teachers' = NoTeachers
         /\ teacherEffect' = NoEffect
         /\ due' = FALSE
         /\ saves' = Orphaned(saves)
         /\ lastT' = TStep("unmount", Null)
    ELSE IF page = "TEACHERS" /\ teacherToEdit' # teacherToEdit
    THEN /\ teacherEffect' = Scheduled(teacherToEdit', teachers)
         /\ lastT' = TStep("render", Null)
         /\ UNCHANGED <<teacherView, selectedTeacher, teachers, saves, due>>
    ELSE UNCHANGED teacherVars

\* a page switch that leaves the requests alone
NavigatePageKeepsRequests(targetPage) ==
    /\ Idle
    /\ \/ targetPage \in NavItems
       \/ Rendered = "TeacherProfilePage" /\ targetPage = "TEACHERS"
    /\ page' = targetPage
    /\ lastN' = NStep("page")
    /\ UNCHANGED <<activeTeacherId, activeReport, teacherToEdit>>
    /\ TeacherModuleFollows

\* navigateTo.page: the header on every page, the quick links of the
\* dashboard, 'back to teachers' of the profile page
NavigatePage(targetPage) ==
    /\ Idle
    /\ \/ targetPage \in NavItems
       \/ Rendered = "TeacherProfilePage" /\ targetPage = "TEACHERS"
    /\ page' = targetPage
    /\ activeTeacherId' = Null
    /\ activeReport' = NoActiveReport
    /\ teacherToEdit' = Null
    /\ lastN' = NStep("page")
    /\ TeacherModuleFollows

\* navigateTo.teacherProfile: from the dashboard, and from the list of the
\* teacher module for a teacher it lists
NavigateTeacherProfile(teacherId) ==
    /\ Idle
    /\ \/ Rendered = "Dashboard"
       \/ /\ Rendered = "TeacherManagementModule" /\ teacherView = "LIST"
          /\ \E t \in teachers.rows : t.id = teacherId
    /\ activeTeacherId' = teacherId
    /\ page' = "TEACHER_PROFILE"
    /\ lastN' = NStep("teacherProfile")
    /\ UNCHANGED <<activeReport, teacherToEdit>>
    /\ TeacherModuleFollows

\* navigateTo.report: from the dashboard and from the profile page
NavigateReport(targetPage, reportId) ==
    /\ Idle
    /\ Rendered \in {"Dashboard", "TeacherProfilePage"}
    /\ activeReport' = [page |-> targetPage, id |-> reportId]
    /\ page' = targetPage
    /\ lastN' = NStep("report")
    /\ UNCHANGED <<activeTeacherId, teacherToEdit>>
    /\ TeacherModuleFollows

\* navigateTo.editTeacher: 'edit' of the profile page, for its teacher
NavigateEditTeacher(teacherId) ==
    /\ Idle
    /\ Rendered = "TeacherProfilePage" /\ teacherId = activeTeacherId
    /\ teacherToEdit' = teacherId
    /\ page' = "TEACHERS"
    /\ lastN' = NStep("editTeacher")
    /\ UNCHANGED <<activeTeacherId, activeReport>>
    /\ TeacherModuleFollows

\* clearActiveReport, called by handleBackToList of a report module that was
\* given an id to show
clearActiveReport ==
    /\ Rendered = "ReportModule" /\ ReportIdToShow(page) # Null
    /\ activeReport' = NoActiveReport
    /\ lastN' = NStep("clearActiveReport")
    /\ UNCHANGED <<page, activeTeacherId, teacherToEdit, teacherVars>>

\* the live query of the teacher module delivers the table
DeliverTeachers ==
    /\ page = "TEACHERS" /\ due /\ Idle
    /\ teachers' = [has |-> TRUE, rows |-> db["teachers"]]
    /\ due' = FALSE
    /\ teacherEffect' = Scheduled(teacherToEdit, teachers')
    /\ lastT' = TStep("delivery", Null)
    /\ UNCHANGED <<teacherView, selectedTeacher, saves, shellVars>>

\* the effect of the teacher module runs: with a request for a teacher of
\* its array it opens the form for that teacher
RunTeacherEffect ==
    /\ teacherEffect.pending
    /\ IF EffectOpens(teacherEffect)
       THEN selectedTeacher' = teacherEffect.id /\ teacherView' = "FORM"
       ELSE UNCHANGED <<selectedTeacher, teacherView>>
    /\ teacherEffect' = NoEffect
    /\ lastT' = TStep("effect", Null)
    /\ UNCHANGED <<teachers, saves, due, shellVars>>

\* the effect a render leaves: before the first delivery 'teachers' is a new
\* [] in every render, afterwards the dependencies are those of the render
\* before unless the request changed
AfterRender(request) ==
    IF request # teacherToEdit \/ ~teachers.has
    THEN Scheduled(request, teachers) ELSE NoEffect

\* handleEdit: 'edit' of a listed teacher
handleEdit(teacherId) ==
    /\ page = "TEACHERS" /\ teacherView = "LIST" /\ Idle
    /\ \E t \in teachers.rows : t.id = teacherId
    /\ selectedTeacher' = teacherId
    /\ teacherView' = "FORM"
    /\ teacherEffect' = AfterRender(teacherToEdit)
    /\ lastT' = TStep("edit", Null)
    /\ UNCHANGED <<teachers, saves, due, shellVars>>

\* handleAddNew
handleAddNew ==
    /\ page = "TEACHERS" /\ teacherView = "LIST" /\ Idle
    /\ selectedTeacher' = Null
    /\ teacherView' = "FORM"
    /\ teacherEffect' = AfterRender(teacherToEdit)
    /\ lastT' = TStep("add new", Null)
    /\ UNCHANGED <<teachers, saves, due, shellVars>>

\* handleCancelForm
handleCancelForm ==
    /\ page = "TEACHERS" /\ teacherView = "FORM" /\ Idle
    /\ teacherView' = "LIST"
    /\ selectedTeacher' = Null
    /\ teacherToEdit' = Null
    /\ lastN' = IF teacherToEdit # Null THEN NStep("clearTeacherToEdit") ELSE lastN
    /\ teacherEffect' = AfterRender(Null)
    /\ lastT' = TStep("cancel", teacherToEdit)
    /\ UNCHANGED <<teachers, saves, due, page, activeTeacherId, activeReport>>

\* the form of the teacher module with this teacher's id as initialData, or
\* with none: the record TeacherForm.handleSubmit passes to onSave
Submitted(initialId, time) ==
    Teacher(IF initialId # Null THEN initialId ELSE ToString(time), "Eve")

\* TeacherForm.handleSubmit and handleSave up to its await: the put is issued
SubmitTeacher ==
    /\ page = "TEACHERS" /\ teacherView = "FORM" /\ Idle
    /\ ops < MaxSaves
    /\ ops' = ops + 1
    /\ now' = now + 1
    /\ saves' = saves \cup {[teacher |-> Submitted(selectedTeacher, now'),
                             request |-> teacherToEdit,
                             committed |-> FALSE, orphan |-> FALSE]}
    /\ lastT' = TStep("submit", teacherToEdit)
    /\ UNCHANGED <<db, backup, exportedFrom, last>>
    /\ UNCHANGED <<teacherView, selectedTeacher, teachers, teacherEffect, due, shellVars>>

\* the put of a handleSave commits; a mounted live query owes a delivery
PutCommits(s) ==
    /\ s \in saves /\ ~s.committed
    /\ db' = [db EXCEPT !["teachers"] = Put("teachers", @, s.teacher)]
    /\ saves' = (saves \ {s}) \cup {[s EXCEPT !.committed = TRUE]}
    /\ due' = (page = "TEACHERS")
    /\ lastT' = TStep("put", s.request)
    /\ UNCHANGED <<now, ops, backup, exportedFrom, last>>
    /\ UNCHANGED <<teacherView, selectedTeacher, teachers, teacherEffect, shellVars>>

\* handleSave after its await, in the closure of the render that made it:
\* setView('LIST'), setSelectedTeacher(undefined), and onClearTeacherToEdit
\* if that render had a request. The updates of an instance that is gone do
\* nothing. An effect that is still waiting runs before the next render, so
\* its updates are queued behind these
SaveContinues(s) ==
    /\ s \in saves /\ s.committed
    /\ saves' = saves \ {s}
    /\ LET request == IF s.request # Null THEN Null ELSE teacherToEdit
           opens == EffectOpens(teacherEffect)
       IN  /\ teacherView' = IF opens THEN "FORM"
                             ELSE IF s.orphan THEN teacherView ELSE "LIST"
           /\ selectedTeacher' = IF opens THEN teacherEffect.id
                                 ELSE IF s.orphan THEN selectedTeacher ELSE Null
           /\ teacherToEdit' = request
           /\ lastN' = IF s.request # Null THEN NStep("clearTeacherToEdit") ELSE lastN
           /\ teacherEffect' = IF page = "TEACHERS" THEN AfterRender(request) ELSE NoEffect
    /\ lastT' = TStep(IF s.orphan THEN "saved elsewhere" ELSE "saved", s.request)
    /\ UNCHANGED <<storeVars, teachers, due, page, activeTeacherId, activeReport>>

\* the shell on the dashboard, over a store that holds two teachers
ShellInit ==
    /\ dexie = TRUE /\ NoConsumer /\ NoList /\ NoModule /\ NoExport /\ NoPages
    /\ now = 2 /\ ops = 0 /\ backup = NoFile /\ exportedFrom = EmptyDb
    /\ last = Step("init", "", "", "", "")
    /\ db = [EmptyDb EXCEPT !["teachers"] = {Teacher("1", "Ann"), Teacher("2", "Bob")}]

ShellFrame ==
    UNCHANGED <<liveVars, listVars, moduleVars, exportVars, previewVars, settingsVars>>

NextShell ==
    \/ \E targetPage \in NavItems :
          NavigatePage(targetPage) /\ UNCHANGED storeVars /\ ShellFrame
    \/ \E teacherId \in RecordIds :
          NavigateTeacherProfile(teacherId) /\ UNCHANGED storeVars /\ ShellFrame
    \/ \E targetPage \in ReportPages, reportId \in RecordIds :
          NavigateReport(targetPage, reportId) /\ UNCHANGED storeVars /\ ShellFrame
    \/ \E teacherId \in RecordIds :
          NavigateEditTeacher(teacherId) /\ UNCHANGED storeVars /\ ShellFrame
    \/ clearActiveReport /\ UNCHANGED storeVars /\ ShellFrame
    \/ DeliverTeachers /\ UNCHANGED storeVars /\ ShellFrame
    \/ RunTeacherEffect /\ UNCHANGED storeVars /\ ShellFrame
    \/ \E teacherId \in RecordIds : handleEdit(teacherId) /\ UNCHANGED storeVars /\ ShellFrame
    \/ handleAddNew /\ UNCHANGED storeVars /\ ShellFrame
    \/ handleCancelForm /\ UNCHANGED storeVars /\ ShellFrame
    \/ SubmitTeacher /\ ShellFrame
    \/ \E s \in saves : PutCommits(s) /\ ShellFrame
    \/ \E s \in saves : SaveContinues(s) /\ ShellFrame

SpecShell == ShellInit /\ [][NextShell]_vars

\* C29: a report request is pending only while the current page is the page
\* it names, so a report module is given an id to show only by the request
\* that opened its page.
C29_ReportRequestOnlyOnItsPage ==
    /\ activeReport # NoActiveReport => page = activeReport.page
    /\ \A p \in ReportPages : ReportIdToShow(p) # Null => page = p

\* a report was opened from the profile page of a teacher
C29_Witness ==
    /\ lastN.op = "report" /\ activeTeacherId = "1"
    /\ activeReport = [page |-> "BOOK_CHECKING", id |-> "2"]
    /\ page = "BOOK_CHECKING"

\* C30: a save or a cancel in a teacher module that was opened with an edit
\* request ends in the LIST view with the request cleared, and once the
\* request is cleared the module enters FORM only by 'edit' or 'add new'.
C30_EditRequestEndsInList ==
    /\ [][/\ lastT'.op \in {"saved", "cancel"} /\ lastT'.request # Null
          /\ lastT' # lastT \/ saves' # saves
          => teacherView' = "LIST" /\ teacherToEdit' = Null]_vars
    /\ [][teacherToEdit = Null /\ teacherView = "LIST" /\ teacherView' = "FORM"
          => lastT'.op \in {"edit", "add new"}]_vars

============================================================================
